---- MODULE Spec2Model ----
(***************************************************************************)
(* Interim-app backend: the token service and the authentication gates     *)
(* (app/auth/__init__.py), the application / job models                   *)
(* (app/models/application.py, app/models/job.py) and the routes that      *)
(* drive them (app/routes/*.py), over the four MongoDB collections.        *)
(*                                                                         *)
(* Spec      the document store under concurrent requests: every database  *)
(*           call of create_application / delete_application is one step   *)
(*           of a worker, so two requests interleave between calls.        *)
(* SpecCanon Spec with clients that send every id as the server printed it.*)
(* SpecSeq   Spec with one request at a time.                              *)
(* SpecAuth  tokens, clock, session and the two decorators, one request at *)
(*           a time.                                                       *)
(* SpecOwner the owner checks of the application and job routes, with two  *)
(*           users and two companies holding tokens.                       *)
(* SpecAccounts  creating users and companies and changing their email and *)
(*           password, interleaved between database calls.                 *)
(* SpecPages the listing routes: page, limit, page count, cursor.          *)
(* SpecSearch  the job search filters.                                     *)
(* SpecFault SpecSeq with a database that may raise after a delete.        *)
(* SpecLife  jobs and applications created, changed and deleted under two  *)
(*           users and two companies, one request at a time.               *)
(* SpecPassword  login and change-password over bcrypt hashes.             *)
(* SpecSession   the session fallback of login_required.                   *)
(* SpecList  the routes that list applications.                            *)
(* SpecIssue registration, login and the tokens they hand out.             *)
(***************************************************************************)
EXTENDS Integers, FiniteSets, Sequences, TLC

\* ------------------------------------------------------------------ bounds
\* Applications ever inserted (ObjectIds are never reused).
MaxApps == 2
\* Principals stored, per kind, once registration is over.
MaxPrincipals == 2
\* Principals ever registered, per kind (SpecAuth).
MaxRegistered == 1
\* Tokens ever issued (SpecAuth).
MaxTokens == 2
\* Clock ticks per second: exp and iat are whole seconds, the clock is finer.
TicksPerSecond == 2
\* The clock is observed at ticks 0..EarlyTicks and around the expiry of the
\* tokens issued then.
EarlyTicks == 1

\* ------------------------------------------------------- program constants
JWT_ACCESS_TOKEN_EXPIRES == 3600
JWT_SECRET_KEY == "jwt-secret-key-interim-app"

Workers == {"w1", "w2"}

\* ------------------------------------------------------------------- state
VARIABLES
    users,          \* collection users: the _id of every stored user
    companies,      \* collection companies: the _id of every stored company
    accounts,       \* the kind, _id, email and password of every stored user
                    \* and company
    jobs,           \* collection jobs: documents
    applications,   \* collection applications: documents
    nextJob,        \* jobs inserted so far
    nextApp,        \* applications inserted so far
    nextUser,       \* users inserted so far
    nextCompany,    \* companies inserted so far
    req,            \* per worker: the request it is handling and its locals
    raced,          \* workers whose create_application passed the route's
                    \* duplicate check while a rival for the same pair had
                    \* passed it too and had not inserted yet
    now,            \* the clock, in ticks
    jwtRule,        \* the installed JWT library's expiry rule
    bcryptRule,     \* the installed bcrypt library's rule for long passwords
    session,        \* the client's Flask session
    issued,         \* every token generate_token has returned, with the
                    \* arguments and the tick of the call
    last            \* the request handled whole in the last step, if any,
                    \* and its outcome

vars == <<users, companies, accounts, jobs, applications, nextJob, nextApp, nextUser,
          nextCompany, req, raced, now, jwtRule, bcryptRule, session, issued, last>>

\* ---------------------------------------------------------------- ObjectId
\* An ObjectId is <<collection tag, serial>>.  Its string form is 24 hex
\* digits: str() prints them in lower case, ObjectId() parses either case.
NoOid == <<"-", 0>>
Oid(tag, n) == <<tag, n>>
UserOids == {Oid("u", n) : n \in 1..MaxPrincipals}
CompanyOids == {Oid("c", n) : n \in 1..MaxPrincipals}
JobOids == {Oid("j", 1)}
AppOids == {Oid("a", n) : n \in 1..MaxApps}

Str(oid) == [oid |-> oid, upper |-> FALSE]
ObjectId(s) == s.oid
NoIdStr == Str(NoOid)
\* The id strings a client can put in a request body for a job: the printed
\* form and the same digits in upper case.
IdStrings(oids) == [oid : oids, upper : BOOLEAN]
CanonStrings(oids) == {Str(o) : o \in oids}

\* ----------------------------------------------------------- token service
\* The JWT library's expiry rule, fixed by the installed PyJWT:
\*   "int_lt"    now is cut to whole seconds, expired iff exp <  now
\*   "float_le"  now keeps its fraction,      expired iff exp <= now
JwtRules == {"int_lt", "float_le"}

Seconds(t) == t \div TicksPerSecond

HS256(payload, key) == <<key, payload>>

NoPayload == [user_id |-> NoIdStr, user_type |-> "", exp |-> 0, iat |-> 0]
NoToken == [payload |-> NoPayload, sig |-> <<"", NoPayload>>]

\* A token service that writes the kind 'user' into every token.
generate_token_user_only(user_id, user_type, t) ==
    LET payload == [user_id |-> Str(user_id),
                    user_type |-> "user",
                    exp |-> Seconds(t) + JWT_ACCESS_TOKEN_EXPIRES,
                    iat |-> Seconds(t)]
    IN  [payload |-> payload, sig |-> HS256(payload, JWT_SECRET_KEY)]

generate_token(user_id, user_type, t) ==
    LET payload == [user_id |-> Str(user_id),
                    user_type |-> user_type,
                    exp |-> Seconds(t) + JWT_ACCESS_TOKEN_EXPIRES,
                    iat |-> Seconds(t)]
    IN  [payload |-> payload, sig |-> HS256(payload, JWT_SECRET_KEY)]

\* A library that never raises ExpiredSignatureError.
ExpiredSignature_Never(exp, t, rule) == FALSE

ExpiredSignature(exp, t, rule) ==
    IF rule = "float_le" THEN exp * TicksPerSecond <= t
                         ELSE exp < Seconds(t)

verify_token(token, t, rule) ==
    IF token.sig # HS256(token.payload, JWT_SECRET_KEY) THEN NoPayload
    ELSE IF ExpiredSignature(token.payload.exp, t, rule) THEN NoPayload
    ELSE token.payload

\* ------------------------------------------------------------------- gates
\* The Authorization header: absent, one word (split(" ")[1] raises
\* IndexError), "Bearer " with nothing after it, or "Bearer <token>".
NoHeader == [auth |-> "absent", token |-> NoToken]
OneWordHeader == [auth |-> "oneword", token |-> NoToken]
EmptyBearer == [auth |-> "bearer", token |-> NoToken]
Bearer(token) == [auth |-> "bearer", token |-> token]

NoSession == [has |-> FALSE, token |-> NoToken]

Rejected(code) == [status |-> code, user_id |-> NoIdStr, user_type |-> ""]
Admitted(payload) ==
    [status |-> 0, user_id |-> payload.user_id, user_type |-> payload.user_type]

\* A gate that reads the session first and the header only without one.
RequestToken_session_first(headers, sess) ==
    IF sess.has THEN sess.token
    ELSE IF headers.auth # "absent" THEN headers.token
    ELSE NoToken

\* The token the decorators read: the header's when there is a header, the
\* session's otherwise.
RequestToken(headers, sess) ==
    IF headers.auth # "absent" THEN headers.token
    ELSE IF sess.has THEN sess.token
    ELSE NoToken

\* A gate that decodes the token without verifying it.
login_required_unverified(headers, sess, t, rule) ==
    IF headers.auth = "oneword" THEN Rejected(401)
    ELSE LET token == RequestToken(headers, sess)
         IN  IF token = NoToken THEN Rejected(401)
             ELSE Admitted(token.payload)

\* A gate that also looks the token's principal up in the store.
login_required_stored(headers, sess, t, rule) ==
    IF headers.auth = "oneword" THEN Rejected(401)
    ELSE LET token == RequestToken(headers, sess)
             payload == verify_token(token, t, rule)
         IN  IF token = NoToken THEN Rejected(401)
             ELSE IF payload = NoPayload THEN Rejected(401)
             ELSE IF ObjectId(payload.user_id) \notin users \cup companies
                  THEN Rejected(401)
             ELSE Admitted(payload)

login_required(headers, sess, t, rule) ==
    IF headers.auth = "oneword" THEN Rejected(401)
    ELSE LET token == RequestToken(headers, sess)
             payload == verify_token(token, t, rule)
         IN  IF token = NoToken THEN Rejected(401)
             ELSE IF payload = NoPayload THEN Rejected(401)
             ELSE Admitted(payload)

\* A company gate without the kind check.
company_required_any_kind(headers, sess, t, rule) ==
    login_required(headers, sess, t, rule)

company_required(headers, sess, t, rule) ==
    IF headers.auth = "oneword" THEN Rejected(401)
    ELSE LET token == RequestToken(headers, sess)
             payload == verify_token(token, t, rule)
         IN  IF token = NoToken THEN Rejected(401)
             ELSE IF payload = NoPayload THEN Rejected(401)
             ELSE IF payload.user_type # "company" THEN Rejected(403)
             ELSE Admitted(payload)

\* The record kept of the last request handled whole: the operation, the
\* token the request carried and whether verify_token accepted it then, the
\* response status, whether the handler body ran and with which request
\* context, and whether a stored collection changed.
NoRequest ==
    [op |-> "", token |-> NoToken, verified |-> FALSE, status |-> 0,
     ran |-> FALSE, user_id |-> NoIdStr, user_type |-> "", changed |-> FALSE,
     target |-> NoIdStr, statut |-> "<absent>"]

\* ---------------------------------------------------------------- database
\* An email address is a number: the routes compare addresses for equality
\* only.  A password is its length, which is all validate_password reads;
\* the stored hash is the length of the password it was made from.
MinPasswordLength == 6

\* The document of a principal registered with an address nobody else has
\* and a password that is long enough.
Account(kind, oid) ==
    [kind |-> kind, _id |-> oid, email |-> oid[2],
     password |-> MinPasswordLength]
AccountsOf(us, cs) ==
    {Account("user", u) : u \in us} \cup {Account("company", c) : c \in cs}

find_document(coll, Q(_)) ==
    IF \E d \in coll : Q(d) THEN {CHOOSE d \in coll : Q(d)} ELSE {}

count_documents(coll, Q(_)) == Cardinality({d \in coll : Q(d)})

update_document(coll, Q(_), Set(_)) ==
    {IF Q(d) THEN Set(d) ELSE d : d \in coll}

delete_document(coll, Q(_)) == coll \ {d \in coll : Q(d)}

\* A collection without the unique index: every insert is taken.
UniqueUserJob_NoIndex(coll, doc) == TRUE

\* The unique index on (user_id, job_id) of applications: insert_one raises
\* DuplicateKeyError when a stored document has the same two values.
UniqueUserJob(coll, doc) ==
    \A d \in coll : ~(d.user_id = doc.user_id /\ d.job_id = doc.job_id)


\* ------------------------------------------------------------- job model
NewJob(oid, company_id) ==
    [_id |-> oid, company_id |-> company_id, titre |-> "t0", actif |-> TRUE,
     candidatures_count |-> 0]

\* A lookup that reports every job it finds as active.
Job_find_by_id_as_active(job_id) ==
    {[d EXCEPT !.actif = TRUE] :
        d \in find_document(jobs, LAMBDA d : d._id = ObjectId(job_id))}

\* Job.find_by_id: the stored job whose _id is ObjectId(job_id), as a set of
\* at most one document.
Job_find_by_id(job_id) ==
    find_document(jobs, LAMBDA d : d._id = ObjectId(job_id))

\* ------------------------------------------------------- application model
\* An application that files every job under the first company.
NewApplication_first_company(oid, user_id, job_id, company_id) ==
    [_id |-> oid, user_id |-> user_id, job_id |-> job_id,
     company_id |-> Str(Oid("c", 1)),
     lettre_motivation |-> "", statut |-> "En attente",
     date_modification |-> now, notes_entreprise |-> ""]

NewApplication(oid, user_id, job_id, company_id) ==
    [_id |-> oid, user_id |-> user_id, job_id |-> job_id, company_id |-> company_id,
     lettre_motivation |-> "", statut |-> "En attente",
     date_modification |-> now, notes_entreprise |-> ""]

Application_find_by_id(application_id) ==
    find_document(applications, LAMBDA d : d._id = ObjectId(application_id))

check_existing_application(user_id, job_id) ==
    find_document(applications,
                  LAMBDA d : d.user_id = user_id /\ d.job_id = job_id) # {}

\* The $set of candidatures_count that Application.update_job_applications_count
\* and Application.delete_by_id send: the job is found by ObjectId(job_id).
SetCandidaturesCount(job_id, count) ==
    update_document(jobs,
                    LAMBDA d : d._id = ObjectId(job_id),
                    LAMBDA d : [d EXCEPT !.candidatures_count = count])

\* count_documents('applications', {'job_id': job_id}): the stored string is
\* compared, not the ObjectId it parses to.
CountByJobId(job_id) ==
    count_documents(applications, LAMBDA d : d.job_id = job_id)

\* ----------------------------------------------------------------- workers
Idle ==
    [op |-> "idle", pc |-> "idle", user_id |-> NoIdStr, user_type |-> "",
     job_id |-> NoIdStr, app_id |-> NoIdStr, company_id |-> NoIdStr,
     app_data |-> FALSE, count |-> 0, new_id |-> NoOid, prior |-> NoOid,
     status |-> 0, exc |-> FALSE, email |-> 0, password |-> 0]

\* A finished request: the response, and of the request what the properties
\* below read (who asked for which job, what was inserted, what was stored
\* before).
Done(r, op, code) ==
    [Idle EXCEPT !.op = op, !.pc = "done", !.status = code,
                 !.user_id = r.user_id, !.job_id = r.job_id,
                 !.new_id = r.new_id, !.prior = r.prior]

\* Headers the clients of Spec send: none, or a token they were issued.
ClientHeaders == {NoHeader} \cup {Bearer(i.token) : i \in issued}

workerFrame == <<users, companies, accounts, nextJob, nextUser, nextCompany, now, jwtRule, bcryptRule,
                 session, issued>>

\* Workers whose create_application may still insert.
Inserting ==
    {v \in Workers : /\ req[v].op = "create_application"
                     /\ req[v].pc \in {"check_existing", "save_find",
                                       "save_insert"}}

Busy(w) == req[w].pc \notin {"idle", "done"}

\* Workers are interchangeable: a request goes to w1 unless w1 is busy.
Free(w) ==
    /\ ~Busy(w)
    /\ w = "w1" \/ Busy("w1")

\* The stored application of this user for this job (the job its job_id
\* parses to) whose create_application has completed, if there is one.
PriorApplication(user_id, job_id) ==
    LET same == {d \in applications :
                    /\ d.user_id = user_id
                    /\ ObjectId(d.job_id) = ObjectId(job_id)
                    /\ \A v \in Workers : Busy(v) => req[v].new_id # d._id}
    IN  IF same = {} THEN NoOid ELSE (CHOOSE d \in same : TRUE)._id

\* --- create_application (routes/applications.py 184-266), step by step ----

\* A route that lets every kind of principal apply.
MayApply_any_kind(user_type) == TRUE

\* Only users apply: request.current_user_type != 'user' is answered 403.
MayApply(user_type) == user_type = "user"

\* A request refused with 403: the response, who asked and for what.
Refused(r) ==
    [Done(Idle, r.op, 403) EXCEPT !.user_id = r.user_id,
                                  !.user_type = r.user_type,
                                  !.job_id = r.job_id,
                                  !.app_id = r.app_id]

\* The decorator, the kind check, the job_id check (no database call), then
\* job = Job.find_by_id(job_id): 404 when absent, 400 when not actif.
create_application_begin(w, headers, job_id) ==
    /\ Free(w)
    /\ nextApp + Cardinality(Inserting) < MaxApps
    /\ LET g == login_required(headers, session, now, jwtRule)
           r == [Idle EXCEPT !.op = "create_application",
                             !.user_id = g.user_id,
                             !.user_type = g.user_type,
                             !.job_id = job_id,
                             !.prior = PriorApplication(g.user_id, job_id)]
           found == Job_find_by_id(job_id)
       IN  req' = [req EXCEPT ![w] =
                IF g.status # 0 THEN Done(Idle, r.op, g.status)
                ELSE IF ~MayApply(g.user_type) THEN Refused(r)
                ELSE IF job_id = NoIdStr THEN Done(Idle, r.op, 400)
                ELSE IF found = {} THEN Done(r, r.op, 404)
                ELSE LET job == CHOOSE d \in found : TRUE
                     IN  IF ~job.actif THEN Done(r, r.op, 400)
                         ELSE [r EXCEPT !.pc = "check_existing",
                                        !.company_id = job.company_id]]
    /\ raced' = raced \ {w}
    /\ UNCHANGED <<jobs, applications, nextApp>>
    /\ UNCHANGED workerFrame
    /\ last' = NoRequest

\* Another worker that has passed the route's duplicate check for the same
\* (user_id, job_id) and has not inserted yet.
Rivals(w) ==
    {v \in Workers \ {w} :
        /\ req[v].op = "create_application"
        /\ req[v].pc \in {"save_find", "save_insert"}
        /\ req[v].user_id = req[w].user_id
        /\ req[v].job_id = req[w].job_id}

\* Application.check_existing_application(user_id, job_id): 409 when found.
create_application_check_existing(w) ==
    /\ req[w].op = "create_application"
    /\ req[w].pc = "check_existing"
    /\ IF check_existing_application(req[w].user_id, req[w].job_id)
       THEN /\ req' = [req EXCEPT ![w] = Done(@, @.op, 409)]
            /\ UNCHANGED raced
       ELSE /\ req' = [req EXCEPT ![w].pc = "save_find"]
            /\ raced' = IF Rivals(w) # {} THEN raced \cup {w} \cup Rivals(w)
                        ELSE raced
    /\ UNCHANGED <<jobs, applications, nextApp>>
    /\ UNCHANGED workerFrame
    /\ last' = NoRequest

\* Application.save: its own find_document; it returns None when the pair is
\* stored, and the route answers 500.
Application_save_find(w) ==
    /\ req[w].op = "create_application"
    /\ req[w].pc = "save_find"
    /\ req' = [req EXCEPT ![w] =
            IF check_existing_application(req[w].user_id, req[w].job_id)
            THEN Done(@, @.op, 500)
            ELSE [@ EXCEPT !.pc = "save_insert"]]
    /\ UNCHANGED <<jobs, applications, nextApp, raced>>
    /\ UNCHANGED workerFrame
    /\ last' = NoRequest

\* insert_document('applications', ...): the unique index makes insert_one
\* raise DuplicateKeyError, which only the route's "except Exception" catches.
Application_save_insert(w) ==
    /\ req[w].op = "create_application"
    /\ req[w].pc = "save_insert"
    /\ LET doc == NewApplication(Oid("a", nextApp + 1), req[w].user_id,
                                 req[w].job_id, req[w].company_id)
       IN  IF UniqueUserJob(applications, doc)
           THEN /\ applications' = applications \cup {doc}
                /\ nextApp' = nextApp + 1
                /\ req' = [req EXCEPT ![w].pc = "save_count",
                                      ![w].new_id = doc._id]
           ELSE /\ req' = [req EXCEPT ![w] = [Done(@, @.op, 500) EXCEPT !.exc = TRUE]]
                /\ UNCHANGED <<applications, nextApp>>
    /\ UNCHANGED <<jobs, raced>>
    /\ UNCHANGED workerFrame
    /\ last' = NoRequest

\* update_job_applications_count: count_documents ...
Application_save_count(w) ==
    /\ req[w].op = "create_application"
    /\ req[w].pc = "save_count"
    /\ req' = [req EXCEPT ![w].pc = "save_update",
                          ![w].count = CountByJobId(req[w].job_id)]
    /\ UNCHANGED <<jobs, applications, nextApp, raced>>
    /\ UNCHANGED workerFrame
    /\ last' = NoRequest

\* ... then update_document on the job; save returns the id, the route 201.
Application_save_update(w) ==
    /\ req[w].op = "create_application"
    /\ req[w].pc = "save_update"
    /\ jobs' = SetCandidaturesCount(req[w].job_id, req[w].count)
    /\ req' = [req EXCEPT ![w] = Done(@, @.op, 201)]
    /\ UNCHANGED <<applications, nextApp, raced>>
    /\ UNCHANGED workerFrame
    /\ last' = NoRequest


\* The owner checks get_application, update_application and
\* delete_application share: a user must be the application's user_id, a
\* company its company_id.
MayTouch_anyone(g, application) == TRUE
MayTouch(g, application) ==
    /\ g.user_type = "user" => application.user_id = g.user_id
    /\ g.user_type = "company" => application.company_id = g.user_id

\* --- delete_application (routes/applications.py 359-406), step by step ----

\* The decorator (no database call), then
\* application = Application.find_by_id(application_id): 404 when absent,
\* 403 when the principal is neither its user nor its company.
delete_application_begin(w, headers, application_id) ==
    /\ Free(w)
    /\ LET g == login_required(headers, session, now, jwtRule)
           r == [Idle EXCEPT !.op = "delete_application",
                             !.user_id = g.user_id,
                             !.user_type = g.user_type,
                             !.app_id = application_id]
           found == Application_find_by_id(application_id)
       IN  req' = [req EXCEPT ![w] =
                IF g.status # 0 THEN Done(Idle, r.op, g.status)
                ELSE IF found = {} THEN Done(Idle, r.op, 404)
                ELSE IF ~MayTouch(g, CHOOSE d \in found : TRUE) THEN Refused(r)
                ELSE [r EXCEPT !.pc = "delete_find"]]
    /\ raced' = raced \ {w}
    /\ UNCHANGED <<jobs, applications, nextApp>>
    /\ UNCHANGED workerFrame
    /\ last' = NoRequest

\* Application.delete_by_id: app_data = find_document(...), read again.
Application_delete_find(w) ==
    /\ req[w].op = "delete_application"
    /\ req[w].pc = "delete_find"
    /\ LET found == Application_find_by_id(req[w].app_id)
       IN  req' = [req EXCEPT ![w] =
                IF found = {} THEN [@ EXCEPT !.pc = "delete_delete"]
                ELSE [@ EXCEPT !.pc = "delete_delete",
                               !.app_data = TRUE,
                               !.job_id = (CHOOSE d \in found : TRUE).job_id]]
    /\ UNCHANGED <<jobs, applications, nextApp, raced>>
    /\ UNCHANGED workerFrame
    /\ last' = NoRequest

\* success = delete_document(...); without success (or without app_data) the
\* count is left alone, and the route answers 500 when success is False.
Application_delete_delete(w) ==
    /\ req[w].op = "delete_application"
    /\ req[w].pc = "delete_delete"
    /\ LET success == Application_find_by_id(req[w].app_id) # {}
       IN  /\ applications' =
                delete_document(applications,
                                LAMBDA d : d._id = ObjectId(req[w].app_id))
           /\ req' = [req EXCEPT ![w] =
                IF success /\ req[w].app_data THEN [@ EXCEPT !.pc = "delete_count"]
                ELSE Done(Idle, @.op, IF success THEN 200 ELSE 500)]
    /\ UNCHANGED <<jobs, nextApp, raced>>
    /\ UNCHANGED workerFrame
    /\ last' = NoRequest

Application_delete_count(w) ==
    /\ req[w].op = "delete_application"
    /\ req[w].pc = "delete_count"
    /\ req' = [req EXCEPT ![w].pc = "delete_update",
                          ![w].count = CountByJobId(req[w].job_id)]
    /\ UNCHANGED <<jobs, applications, nextApp, raced>>
    /\ UNCHANGED workerFrame
    /\ last' = NoRequest

Application_delete_update(w) ==
    /\ req[w].op = "delete_application"
    /\ req[w].pc = "delete_update"
    /\ jobs' = SetCandidaturesCount(req[w].job_id, req[w].count)
    /\ req' = [req EXCEPT ![w] = Done(Idle, @.op, 200)]
    /\ UNCHANGED <<applications, nextApp, raced>>
    /\ UNCHANGED workerFrame
    /\ last' = NoRequest

\* --- job routes (routes/jobs.py): one database write each, taken whole ----
jobFrame == <<users, companies, accounts, applications, nextApp, nextUser, nextCompany,
              req, raced, now, jwtRule, bcryptRule, session, issued>>

\* The stored collections.
Stored == <<users, companies, jobs, applications>>

\* What a gated request leaves in last: g is the decorator's result, code the
\* handler's status when it ran.
Outcome(op, headers, g, code) ==
    LET token == IF headers.auth = "oneword" THEN NoToken
                 ELSE RequestToken(headers, session)
    IN  [op |-> op, token |-> token,
         verified |-> verify_token(token, now, jwtRule) # NoPayload,
         status |-> IF g.status # 0 THEN g.status ELSE code,
         ran |-> g.status = 0,
         user_id |-> g.user_id, user_type |-> g.user_type,
         changed |-> Stored' # Stored,
         target |-> NoIdStr, statut |-> "<absent>"]

\* The same for a route with the id of a document in its path.
OutcomeOn(op, headers, g, code, target) ==
    [Outcome(op, headers, g, code) EXCEPT !.target = target]

\* create_job: the job belongs to the company of the token; the body is
\* well formed (titre and description present).
\* The job routes change jobs; what they answer is kept in last by the
\* specifications that observe requests, through the *_outcome definitions.
create_job_outcome(headers) ==
    Outcome("create_job", headers,
            company_required(headers, session, now, jwtRule), 201)

create_job(headers) ==
    LET g == company_required(headers, session, now, jwtRule)
    IN  /\ nextJob < Cardinality(JobOids)
        /\ IF g.status = 0
           THEN /\ jobs' = jobs \cup {NewJob(Oid("j", nextJob + 1), g.user_id)}
                /\ nextJob' = nextJob + 1
           ELSE UNCHANGED <<jobs, nextJob>>
        /\ UNCHANGED jobFrame

\* A key a request body does not have.
Absent == "<absent>"

\* The checks update_job, deactivate_job and delete_job share: 404 when the
\* job is not stored, 403 when its company_id is not the token's user_id.
OwnJob_any_company(g, job_id) ==
    IF Job_find_by_id(job_id) = {} THEN 404 ELSE 200
OwnJob(g, job_id) ==
    LET found == Job_find_by_id(job_id)
    IN  IF found = {} THEN 404
        ELSE IF (CHOOSE d \in found : TRUE).company_id # g.user_id THEN 403
        ELSE 200

\* Bodies of update_job: 'titre' and 'actif', each present or not.
JobUpdates == [titre : {Absent, "t1"}, has_actif : BOOLEAN, actif : BOOLEAN]
ActifUpdates == {data \in JobUpdates : data.titre = Absent /\ data.has_actif}

\* update_job: 400 when the body names no allowed field, else Job.update.
update_job_response(g, job_id, data) ==
    LET own == OwnJob(g, job_id)
    IN  IF own # 200 THEN own
        ELSE IF data.titre = Absent /\ ~data.has_actif THEN 400
        ELSE 200

update_job_outcome(headers, job_id, data) ==
    LET g == company_required(headers, session, now, jwtRule)
    IN  OutcomeOn("update_job", headers, g,
                  update_job_response(g, job_id, data), job_id)

update_job(headers, job_id, data) ==
    LET g == company_required(headers, session, now, jwtRule)
        code == update_job_response(g, job_id, data)
    IN  /\ jobs' = IF g.status = 0 /\ code = 200
                   THEN update_document(jobs,
                            LAMBDA d : d._id = ObjectId(job_id),
                            LAMBDA d : [d EXCEPT
                                !.titre = IF data.titre = Absent THEN @
                                          ELSE data.titre,
                                !.actif = IF data.has_actif THEN data.actif
                                          ELSE @])
                   ELSE jobs
        /\ UNCHANGED nextJob
        /\ UNCHANGED jobFrame

deactivate_job_outcome(headers, job_id) ==
    LET g == company_required(headers, session, now, jwtRule)
    IN  OutcomeOn("deactivate_job", headers, g, OwnJob(g, job_id), job_id)

\* deactivate_job: Job.deactivate sets actif to False.
deactivate_job(headers, job_id) ==
    LET g == company_required(headers, session, now, jwtRule)
        code == OwnJob(g, job_id)
    IN  /\ jobs' = IF g.status = 0 /\ code = 200
                   THEN update_document(jobs,
                            LAMBDA d : d._id = ObjectId(job_id),
                            LAMBDA d : [d EXCEPT !.actif = FALSE])
                   ELSE jobs
        /\ UNCHANGED nextJob
        /\ UNCHANGED jobFrame

delete_job_outcome(headers, job_id) ==
    LET g == company_required(headers, session, now, jwtRule)
    IN  OutcomeOn("delete_job", headers, g, OwnJob(g, job_id), job_id)

\* delete_job: Job.delete_by_id removes the job and nothing else.
delete_job(headers, job_id) ==
    LET g == company_required(headers, session, now, jwtRule)
        code == OwnJob(g, job_id)
    IN  /\ jobs' = IF g.status = 0 /\ code = 200
                   THEN delete_document(jobs, LAMBDA d : d._id = ObjectId(job_id))
                   ELSE jobs
        /\ UNCHANGED nextJob
        /\ UNCHANGED jobFrame

\* ------------------------------------------------------------------- Spec
\* The principals are registered and the clock stands still.  The company
\* c1 and the users in applicants hold the tokens registration returned.
Registered(applicants) ==
    /\ users = UserOids
    /\ companies = CompanyOids
    /\ accounts = AccountsOf(UserOids, CompanyOids)
    /\ jobs = {}
    /\ applications = {}
    /\ nextJob = 0
    /\ nextApp = 0
    /\ nextUser = MaxPrincipals
    /\ nextCompany = MaxPrincipals
    /\ req = [w \in Workers |-> Idle]
    /\ raced = {}
    /\ now = 0
    /\ jwtRule = "float_le"
    /\ bcryptRule = "truncate"
    /\ session = NoSession
    /\ issued = {[token |-> generate_token(u, "user", 0), id |-> u,
                  kind |-> "user", at |-> 0] : u \in applicants}
                \cup {[token |-> generate_token(Oid("c", 1), "company", 0),
                       id |-> Oid("c", 1), kind |-> "company", at |-> 0]}
    /\ last = NoRequest

Init == Registered({Oid("u", 1)})

Quiet == \A w \in Workers : ~Busy(w)

CreateStep(w) ==
    \/ create_application_check_existing(w)
    \/ Application_save_find(w)
    \/ Application_save_insert(w)
    \/ Application_save_count(w)
    \/ Application_save_update(w)

DeleteStep(w) ==
    \/ Application_delete_find(w)
    \/ Application_delete_delete(w)
    \/ Application_delete_count(w)
    \/ Application_delete_update(w)

WorkerStep(w) == CreateStep(w) \/ DeleteStep(w)

\* A request arrives.  JobIdInputs are the job id strings clients send;
\* with Overlap FALSE a request arrives only when none is being handled.
Arrival(JobIdInputs, Overlap) ==
    /\ Overlap \/ Quiet
    /\ \/ \E w \in Workers, h \in ClientHeaders, j \in JobIdInputs :
                create_application_begin(w, h, j)
       \/ \E w \in Workers, h \in ClientHeaders, a \in CanonStrings(AppOids) :
                delete_application_begin(w, h, a)
       \/ \E h \in ClientHeaders : create_job(h) /\ last' = NoRequest
       \/ \E h \in ClientHeaders, j \in CanonStrings(JobOids), data \in ActifUpdates :
                update_job(h, j, data) /\ last' = NoRequest
       \/ \E h \in ClientHeaders, j \in CanonStrings(JobOids) :
                delete_job(h, j) /\ last' = NoRequest

Next ==
    \/ Arrival(IdStrings(JobOids), TRUE)
    \/ \E w \in Workers : WorkerStep(w)
Spec == Init /\ [][Next]_vars

\* Clients that send every job id as the server printed it.
NextCanon ==
    \/ Arrival(CanonStrings(JobOids), TRUE)
    \/ \E w \in Workers : WorkerStep(w)
SpecCanon == Init /\ [][NextCanon]_vars

\* One request at a time; every stored user applies.
InitSeq == Registered(UserOids)
NextSeq ==
    \/ Arrival(IdStrings(JobOids), FALSE)
    \/ \E w \in Workers : WorkerStep(w)
SpecSeq == InitSeq /\ [][NextSeq]_vars

\* -------------------------------------------------------------- SpecFault
\* Application.delete_by_id runs find, delete, recount and update inside one
\* bare "try/except: return False".  Here the database may raise on the
\* recount or on the write of the job's count, after the application has been
\* removed: the handler returns False and the route answers 500.
Application_delete_count_raises(w) ==
    /\ req[w].op = "delete_application"
    /\ req[w].pc = "delete_count"
    /\ req' = [req EXCEPT ![w] = [Done(Idle, @.op, 500) EXCEPT !.exc = TRUE]]
    /\ UNCHANGED <<jobs, applications, nextApp, raced>>
    /\ UNCHANGED workerFrame
    /\ last' = NoRequest

Application_delete_update_raises(w) ==
    /\ req[w].op = "delete_application"
    /\ req[w].pc = "delete_update"
    /\ req' = [req EXCEPT ![w] = [Done(Idle, @.op, 500) EXCEPT !.exc = TRUE]]
    /\ UNCHANGED <<jobs, applications, nextApp, raced>>
    /\ UNCHANGED workerFrame
    /\ last' = NoRequest

DeleteFault(w) ==
    \/ Application_delete_count_raises(w)
    \/ Application_delete_update_raises(w)

NextFault ==
    \/ Arrival(IdStrings(JobOids), FALSE)
    \/ \E w \in Workers : WorkerStep(w)
    \/ \E w \in Workers : DeleteFault(w)
SpecFault == InitSeq /\ [][NextFault]_vars

\* --------------------------------------------------------------- SpecAuth
\* Registration, login, logout and the deletion of principals, each taken
\* whole, while the clock advances.  Request bodies are well formed.
authFrame == <<applications, nextApp, req, raced, jwtRule, bcryptRule>>

\* The instants at which the clock is observed: the first ticks, and the
\* ticks from one second before to one second after the expiry of a token
\* issued during the first ticks.
Instants ==
    (0..EarlyTicks)
    \cup (((JWT_ACCESS_TOKEN_EXPIRES - 1) * TicksPerSecond)
            .. ((JWT_ACCESS_TOKEN_EXPIRES + 1) * TicksPerSecond + EarlyTicks))

\* The clock moves on.
Tick ==
    /\ \E t \in Instants : t > now /\ now' = t
    /\ last' = NoRequest
    /\ UNCHANGED <<users, companies, accounts, jobs, nextJob, nextUser,
                   nextCompany, session, issued>>
    /\ UNCHANGED authFrame

Issue(oid, kind) ==
    [token |-> generate_token(oid, kind, now), id |-> oid, kind |-> kind,
     at |-> now]

\* Tokens are issued during the first ticks, so that each is followed to its
\* expiry.
IssuingTime == now <= EarlyTicks

\* register_user with an unused email: the user is stored and gets a token.
register_user ==
    /\ nextUser < MaxRegistered
    /\ IssuingTime
    /\ Cardinality(issued) < MaxTokens
    /\ users' = users \cup {Oid("u", nextUser + 1)}
    /\ accounts' = accounts \cup {Account("user", Oid("u", nextUser + 1))}
    /\ nextUser' = nextUser + 1
    /\ issued' = issued \cup {Issue(Oid("u", nextUser + 1), "user")}
    /\ UNCHANGED <<companies, jobs, nextJob, nextCompany, now, session>>
    /\ UNCHANGED authFrame
    /\ last' = NoRequest

\* register_company with an unused email.
register_company ==
    /\ nextCompany < MaxRegistered
    /\ IssuingTime
    /\ Cardinality(issued) < MaxTokens
    /\ companies' = companies \cup {Oid("c", nextCompany + 1)}
    /\ accounts' =
          accounts \cup {Account("company", Oid("c", nextCompany + 1))}
    /\ nextCompany' = nextCompany + 1
    /\ issued' = issued \cup {Issue(Oid("c", nextCompany + 1), "company")}
    /\ UNCHANGED <<users, jobs, nextJob, nextUser, now, session>>
    /\ UNCHANGED authFrame
    /\ last' = NoRequest

\* login with the email and password registered for oid: 401 when no such
\* principal is stored; otherwise a token, also kept in the session.
login(oid, user_type) ==
    LET coll == IF user_type = "user" THEN users ELSE companies
    IN  /\ IssuingTime
        /\ oid \in coll => Cardinality(issued \cup {Issue(oid, user_type)}) <= MaxTokens
        /\ IF oid \in coll
           THEN /\ issued' = issued \cup {Issue(oid, user_type)}
                /\ session' = [has |-> TRUE,
                               token |-> generate_token(oid, user_type, now)]
           ELSE UNCHANGED <<issued, session>>
        /\ UNCHANGED <<users, companies, accounts, jobs, nextJob, nextUser,
                       nextCompany, now>>
        /\ UNCHANGED authFrame
        /\ last' = NoRequest

\* logout: behind login_required; the session is emptied.
logout(headers) ==
    LET g == login_required(headers, session, now, jwtRule)
    IN  /\ session' = IF g.status = 0 THEN NoSession ELSE session
        /\ UNCHANGED <<users, companies, accounts, jobs, nextJob, nextUser,
                       nextCompany, now, issued>>
        /\ UNCHANGED authFrame
        /\ last' = Outcome("logout", headers, g, 200)

\* delete_user: behind login_required; 404 when the user is not stored, 403
\* unless the token is that user's.
delete_user(headers, user_id) ==
    LET g == login_required(headers, session, now, jwtRule)
        found == ObjectId(user_id) \in users
        code == IF ~found THEN 404
                ELSE IF g.user_type # "user" \/ g.user_id # user_id THEN 403
                ELSE 200
    IN  /\ users' = IF g.status = 0 /\ code = 200
                    THEN users \ {ObjectId(user_id)} ELSE users
        /\ accounts' = {a \in accounts : a.kind = "user" => a._id \in users'}
        /\ UNCHANGED <<companies, jobs, nextJob, nextUser, nextCompany, now,
                       session, issued>>
        /\ UNCHANGED authFrame
        /\ last' = Outcome("delete_user", headers, g, code)

\* delete_company: behind company_required; 404 when the company is not
\* stored, 403 unless the token is that company's.
delete_company(headers, company_id) ==
    LET g == company_required(headers, session, now, jwtRule)
        found == ObjectId(company_id) \in companies
        code == IF ~found THEN 404
                ELSE IF g.user_id # company_id THEN 403
                ELSE 200
    IN  /\ companies' = IF g.status = 0 /\ code = 200
                        THEN companies \ {ObjectId(company_id)} ELSE companies
        /\ accounts' =
              {a \in accounts : a.kind = "company" => a._id \in companies'}
        /\ UNCHANGED <<users, jobs, nextJob, nextUser, nextCompany, now,
                       session, issued>>
        /\ UNCHANGED authFrame
        /\ last' = Outcome("delete_company", headers, g, code)

\* Tokens nobody was issued: the payload of an issued token with a later exp
\* under the old signature, and an issued payload signed with another key.
Forgeries ==
    {[payload |-> [i.token.payload EXCEPT !.exp = @ + JWT_ACCESS_TOKEN_EXPIRES],
      sig |-> i.token.sig] : i \in issued}
    \cup {[payload |-> i.token.payload,
           sig |-> HS256(i.token.payload, "guess")] : i \in issued}

\* Authorization headers a client can send.
AuthHeaders ==
    {NoHeader, OneWordHeader, EmptyBearer}
    \cup {Bearer(i.token) : i \in issued}
    \cup {Bearer(t) : t \in Forgeries}

\* The ids registration can hand out in SpecAuth.
AuthUserOids == {Oid("u", n) : n \in 1..MaxRegistered}
AuthCompanyOids == {Oid("c", n) : n \in 1..MaxRegistered}

InitAuth ==
    /\ users = {}
    /\ companies = {}
    /\ accounts = {}
    /\ jobs = {}
    /\ applications = {}
    /\ nextJob = 0
    /\ nextApp = 0
    /\ nextUser = 0
    /\ nextCompany = 0
    /\ req = [w \in Workers |-> Idle]
    /\ raced = {}
    /\ now = 0
    /\ jwtRule \in JwtRules
    /\ bcryptRule = "truncate"
    /\ session = NoSession
    /\ issued = {}
    /\ last = NoRequest

NextAuth ==
    \/ Tick
    \/ register_user
    \/ register_company
    \/ \E oid \in AuthUserOids : login(oid, "user")
    \/ \E oid \in AuthCompanyOids : login(oid, "company")
    \/ \E h \in AuthHeaders : logout(h)
    \/ \E h \in AuthHeaders, u \in CanonStrings(AuthUserOids) : delete_user(h, u)
    \/ \E h \in AuthHeaders, c \in CanonStrings(AuthCompanyOids) : delete_company(h, c)
    \/ \E h \in AuthHeaders : create_job(h) /\ last' = create_job_outcome(h)
SpecAuth == InitAuth /\ [][NextAuth]_vars

\* ------------------------------------------------------------ SpecSession
\* verify_token_route: behind login_required; 404 when the token's principal
\* is not stored, else 200 with the token's user_id and user_type.  last
\* keeps the header the client sent and the session as the request found it.
verify_token_route(headers) ==
    LET g == login_required(headers, session, now, jwtRule)
        coll == IF g.user_type = "user" THEN users ELSE companies
        code == IF ObjectId(g.user_id) \in coll THEN 200 ELSE 404
    IN  /\ UNCHANGED <<users, companies, accounts, jobs, nextJob, nextUser,
                       nextCompany, now, session, issued>>
        /\ UNCHANGED authFrame
        /\ last' = [op |-> "verify", auth |-> headers.auth,
                    header_token |-> headers.token, session |-> session,
                    status |-> IF g.status # 0 THEN g.status ELSE code,
                    user_id |-> g.user_id, user_type |-> g.user_type]

\* One user and one company are registered and log in, log out and ask who
\* they are, with and without an Authorization header, while the clock runs
\* to the expiry of their tokens.
InitSession ==
    /\ users = AuthUserOids
    /\ companies = AuthCompanyOids
    /\ accounts = AccountsOf(users, companies)
    /\ jobs = {}
    /\ applications = {}
    /\ nextJob = 0
    /\ nextApp = 0
    /\ nextUser = MaxRegistered
    /\ nextCompany = MaxRegistered
    /\ req = [w \in Workers |-> Idle]
    /\ raced = {}
    /\ now = 0
    /\ jwtRule \in JwtRules
    /\ bcryptRule = "truncate"
    /\ session = NoSession
    /\ issued = {}
    /\ last = NoRequest

NextSession ==
    \/ Tick
    \/ \E oid \in AuthUserOids : login(oid, "user")
    \/ \E oid \in AuthCompanyOids : login(oid, "company")
    \/ \E h \in AuthHeaders : logout(h)
    \/ \E h \in AuthHeaders : verify_token_route(h)
SpecSession == InitSession /\ [][NextSession]_vars

\* -------------------------------------------------------------- SpecOwner
\* Reading and updating one application, and the job routes, each request
\* taken whole and its answer kept in last; delete_application step by step.
\* Two users and two companies hold tokens; company c1 owns job j1, to which
\* user u1 applied one tick ago.

valid_statuses_any == {"En attente", "Acceptée", "Refusée", "Autre", ""}
valid_statuses == {"En attente", "Acceptée", "Refusée"}

\* What a request body can hold under 'statut': nothing, the empty string,
\* a valid status, something else.
StatutInputs == {Absent, "", "Acceptée", "Autre"}

\* Bodies of update_application.
ApplicationUpdates ==
    [lettre_motivation : {Absent, "l1"}, statut : StatutInputs \ {""},
     notes_entreprise : {Absent, "n1"}]

ownerFrame == <<users, companies, accounts, nextJob, nextApp, nextUser, nextCompany, req,
                raced, now, jwtRule, bcryptRule, session, issued>>

\* get_application: 404, 403 or the application.
get_application(headers, application_id) ==
    LET g == login_required(headers, session, now, jwtRule)
        found == Application_find_by_id(application_id)
        code == IF found = {} THEN 404
                ELSE IF ~MayTouch(g, CHOOSE d \in found : TRUE) THEN 403
                ELSE 200
    IN  /\ UNCHANGED <<jobs, applications>>
        /\ UNCHANGED ownerFrame
        /\ last' = OutcomeOn("get_application", headers, g, code, application_id)

\* update_application: a user sets lettre_motivation, a company statut and
\* notes_entreprise; 400 on a statut that is not valid or when nothing is
\* left to set.  Application.update also sets date_modification.
update_application_response(g, application_id, data) ==
    LET found == Application_find_by_id(application_id)
    IN  IF found = {} THEN 404
        ELSE IF ~MayTouch(g, CHOOSE d \in found : TRUE) THEN 403
        ELSE IF g.user_type = "company"
             THEN IF data.statut # Absent /\ data.statut \notin valid_statuses
                  THEN 400
                  ELSE IF data.statut = Absent /\ data.notes_entreprise = Absent
                  THEN 400
                  ELSE 200
             ELSE IF data.lettre_motivation = Absent THEN 400 ELSE 200

\* An update that lets either kind of owner write every field of the body.
update_application_every_field(headers, application_id, data) ==
    LET g == login_required(headers, session, now, jwtRule)
        code == update_application_response(g, application_id, data)
        set(d) ==
            [d EXCEPT
                !.lettre_motivation = IF data.lettre_motivation = Absent
                                      THEN @ ELSE data.lettre_motivation,
                !.statut = IF data.statut = Absent THEN @ ELSE data.statut,
                !.notes_entreprise = IF data.notes_entreprise = Absent
                                     THEN @ ELSE data.notes_entreprise,
                !.date_modification = now]
    IN  /\ applications' =
            IF g.status = 0 /\ code = 200
            THEN update_document(applications,
                                 LAMBDA d : d._id = ObjectId(application_id), set)
            ELSE applications
        /\ UNCHANGED jobs
        /\ UNCHANGED ownerFrame
        /\ last' = [OutcomeOn("update_application", headers, g, code,
                              application_id) EXCEPT !.statut = data.statut]

update_application(headers, application_id, data) ==
    LET g == login_required(headers, session, now, jwtRule)
        code == update_application_response(g, application_id, data)
        set(d) ==
            IF g.user_type = "company"
            THEN [d EXCEPT
                    !.statut = IF data.statut = Absent THEN @ ELSE data.statut,
                    !.notes_entreprise = IF data.notes_entreprise = Absent
                                         THEN @ ELSE data.notes_entreprise,
                    !.date_modification = now]
            ELSE [d EXCEPT !.lettre_motivation = data.lettre_motivation,
                           !.date_modification = now]
    IN  /\ applications' =
            IF g.status = 0 /\ code = 200
            THEN update_document(applications,
                                 LAMBDA d : d._id = ObjectId(application_id), set)
            ELSE applications
        /\ UNCHANGED jobs
        /\ UNCHANGED ownerFrame
        /\ last' = [OutcomeOn("update_application", headers, g, code,
                              application_id) EXCEPT !.statut = data.statut]

\* update_application_status: behind company_required; 400 when statut is
\* missing, empty or not valid; Application.update_status sets statut and
\* date_modification, and notes_entreprise when notes are given.
update_application_status_response(g, application_id, statut) ==
    LET found == Application_find_by_id(application_id)
    IN  IF found = {} THEN 404
        ELSE IF (CHOOSE d \in found : TRUE).company_id # g.user_id THEN 403
        ELSE IF statut \in {Absent, ""} THEN 400
        ELSE IF statut \notin valid_statuses THEN 400
        ELSE 200

update_application_status(headers, application_id, statut, notes) ==
    LET g == company_required(headers, session, now, jwtRule)
        code == update_application_status_response(g, application_id, statut)
    IN  /\ applications' =
            IF g.status = 0 /\ code = 200
            THEN update_document(applications,
                    LAMBDA d : d._id = ObjectId(application_id),
                    LAMBDA d : [d EXCEPT
                        !.statut = statut,
                        !.date_modification = now,
                        !.notes_entreprise = IF notes = Absent THEN @ ELSE notes])
            ELSE applications
        /\ UNCHANGED jobs
        /\ UNCHANGED ownerFrame
        /\ last' = [OutcomeOn("update_application_status", headers, g, code,
                              application_id) EXCEPT !.statut = statut]

\* The worker that serves delete_application here, the tokens the four
\* clients send, and the ids they name.
OwnerWorker == "w1"
OwnerHeaders == {Bearer(i.token) : i \in issued}
OwnerApp == Str(Oid("a", 1))
OwnerJob == Str(Oid("j", 1))

InitOwner ==
    /\ users = UserOids
    /\ companies = CompanyOids
    /\ accounts = AccountsOf(UserOids, CompanyOids)
    /\ jobs = {[NewJob(Oid("j", 1), Str(Oid("c", 1)))
                    EXCEPT !.candidatures_count = 1]}
    /\ applications = {[_id |-> Oid("a", 1), user_id |-> Str(Oid("u", 1)),
                        job_id |-> Str(Oid("j", 1)),
                        company_id |-> Str(Oid("c", 1)),
                        lettre_motivation |-> "", statut |-> "En attente",
                        date_modification |-> 0, notes_entreprise |-> ""]}
    /\ nextJob = 1
    /\ nextApp = 1
    /\ nextUser = MaxPrincipals
    /\ nextCompany = MaxPrincipals
    /\ req = [w \in Workers |-> Idle]
    /\ raced = {}
    /\ now = 1
    /\ jwtRule = "float_le"
    /\ bcryptRule = "truncate"
    /\ session = NoSession
    /\ issued = {Issue(u, "user") : u \in UserOids}
                \cup {Issue(c, "company") : c \in CompanyOids}
    /\ last = NoRequest

NextOwner ==
    \/ \E h \in OwnerHeaders : Quiet /\ get_application(h, OwnerApp)
    \/ \E h \in OwnerHeaders, data \in ApplicationUpdates :
          Quiet /\ update_application(h, OwnerApp, data)
    \/ \E h \in OwnerHeaders, s \in StatutInputs, n \in {Absent, "n1"} :
          Quiet /\ update_application_status(h, OwnerApp, s, n)
    \/ \E h \in OwnerHeaders, data \in ActifUpdates :
          /\ Quiet
          /\ update_job(h, OwnerJob, data)
          /\ last' = update_job_outcome(h, OwnerJob, data)
    \/ \E h \in OwnerHeaders :
          /\ Quiet
          /\ deactivate_job(h, OwnerJob)
          /\ last' = deactivate_job_outcome(h, OwnerJob)
    \/ \E h \in OwnerHeaders :
          /\ Quiet
          /\ delete_job(h, OwnerJob)
          /\ last' = delete_job_outcome(h, OwnerJob)
    \/ \E h \in OwnerHeaders :
          Quiet /\ delete_application_begin(OwnerWorker, h, OwnerApp)
    \/ DeleteStep(OwnerWorker)
SpecOwner == InitOwner /\ [][NextOwner]_vars

\* --------------------------------------------------------------- SpecLife
\* The life of jobs and applications under two users and two companies, one
\* request at a time: jobs are created, changed and deleted, users apply and
\* withdraw, applications are edited, users and companies delete themselves.
InitLife ==
    /\ users = UserOids
    /\ companies = CompanyOids
    /\ accounts = AccountsOf(UserOids, CompanyOids)
    /\ jobs = {}
    /\ applications = {}
    /\ nextJob = 0
    /\ nextApp = 0
    /\ nextUser = MaxPrincipals
    /\ nextCompany = MaxPrincipals
    /\ req = [w \in Workers |-> Idle]
    /\ raced = {}
    /\ now = 1
    /\ jwtRule = "float_le"
    /\ bcryptRule = "truncate"
    /\ session = NoSession
    /\ issued = {Issue(u, "user") : u \in UserOids}
                \cup {Issue(c, "company") : c \in CompanyOids}
    /\ last = NoRequest

\* The headers of the principals of one kind.
LifeHeaders(kind) == {Bearer(i.token) : i \in {x \in issued : x.kind = kind}}

\* The body every update_application of this specification sends.
LifeUpdate ==
    [lettre_motivation |-> "l1", statut |-> "Acceptée", notes_entreprise |-> Absent]

NextLife ==
    \/ \E h \in LifeHeaders("user"), j \in CanonStrings(JobOids) :
          Quiet /\ create_application_begin(OwnerWorker, h, j)
    \/ CreateStep(OwnerWorker)
    \/ \E h \in LifeHeaders("user"), a \in CanonStrings(AppOids) :
          Quiet /\ delete_application_begin(OwnerWorker, h, a)
    \/ DeleteStep(OwnerWorker)
    \/ \E h \in LifeHeaders("company") :
          Quiet /\ create_job(h) /\ last' = NoRequest
    \/ \E h \in LifeHeaders("company"), j \in CanonStrings(JobOids),
          data \in ActifUpdates :
          Quiet /\ update_job(h, j, data) /\ last' = NoRequest
    \/ \E h \in LifeHeaders("company"), j \in CanonStrings(JobOids) :
          Quiet /\ delete_job(h, j) /\ last' = NoRequest
    \/ \E h \in LifeHeaders("company"), a \in CanonStrings(AppOids) :
          Quiet /\ update_application(h, a, LifeUpdate)
    \/ \E i \in issued :
          Quiet /\ i.kind = "user" /\ delete_user(Bearer(i.token), Str(i.id))
SpecLife == InitLife /\ [][NextLife]_vars

\* ----------------------------------------------------------- SpecAccounts
\* Creating users and companies, changing their email and their password,
\* step by step on the two workers: the route's checks and find_by_email in
\* one step, insert_one or update_one in a later one.  The unique indexes on
\* users.email and companies.email (database.py 27-32) make insert_one and
\* update_one raise DuplicateKeyError, which every route answers with 500
\* from its 'except Exception'.  Bodies hold a well-formed email and the
\* other required fields; the password may be empty, too short or long
\* enough.

MaxEmails == 2
Emails == 1..MaxEmails
PasswordInputs == {0, MinPasswordLength - 1, MinPasswordLength}

\* validate_password: len(password) < 6 is refused.
validate_password(password) == ~(password < MinPasswordLength)

CreateRoutes ==
    {"register_user", "register_company", "create_user", "create_company"}
UpdateRoutes == {"update_user", "update_company"}
KindOf(op) ==
    IF op \in {"register_user", "create_user", "update_user"}
    THEN "user" ELSE "company"

\* The routes that call validate_password before they store a password:
\* create_user and create_company do not.
CallsValidatePassword(op) ==
    op \in {"register_user", "register_company", "change_password"}

find_by_email(kind, email) ==
    find_document(accounts, LAMBDA a : a.kind = kind /\ a.email = email)
find_by_id(kind, id) ==
    find_document(accounts, LAMBDA a : a.kind = kind /\ a._id = ObjectId(id))

accountFrame == <<jobs, applications, nextJob, nextApp, raced, now, jwtRule, bcryptRule,
                  session>>

\* What a finished request leaves in last; its worker is idle again.
Answer(op, code) == [NoRequest EXCEPT !.op = op, !.status = code]

\* Requests on different collections read and write different documents;
\* the second worker takes a request while the first is busy on the same
\* collection.
SameCollection(w, op) ==
    \A v \in Workers \ {w} : Busy(v) => KindOf(req[v].op) = KindOf(op)

\* register_user, register_company, create_user, create_company up to the
\* email check: 400 for an empty password, 400 from validate_password where
\* the route calls it, 409 when find_by_email finds a document.
create_principal_response(op, data) ==
    IF data.password = 0 THEN 400
    ELSE IF CallsValidatePassword(op) /\ ~validate_password(data.password)
    THEN 400
    ELSE IF find_by_email(KindOf(op), data.email) # {} THEN 409
    ELSE 0

create_principal_begin(w, op, data) ==
    /\ Free(w)
    /\ SameCollection(w, op)
    /\ LET code == create_principal_response(op, data)
       IN  IF code # 0
           THEN /\ req' = [req EXCEPT ![w] = Idle]
                /\ last' = Answer(op, code)
           ELSE /\ req' = [req EXCEPT ![w] =
                     [Idle EXCEPT !.op = op, !.pc = "save",
                                  !.email = data.email,
                                  !.password = data.password]]
                /\ last' = NoRequest
    /\ UNCHANGED <<users, companies, accounts, nextUser, nextCompany, issued>>
    /\ UNCHANGED accountFrame

\* User.save / Company.save: insert_one under the unique index, then the
\* token for the two registration routes, and 201.
Principal_save(w) ==
    /\ req[w].pc = "save"
    /\ LET op == req[w].op
           kind == KindOf(op)
           oid == IF kind = "user" THEN Oid("u", nextUser + 1)
                  ELSE Oid("c", nextCompany + 1)
           DuplicateKeyError == \E a \in accounts : /\ a.kind = kind
                                                    /\ a.email = req[w].email
       IN  IF DuplicateKeyError
           THEN /\ last' = Answer(op, 500)
                /\ UNCHANGED <<users, companies, accounts, nextUser,
                               nextCompany, issued>>
           ELSE /\ accounts' = accounts \cup
                     {[kind |-> kind, _id |-> oid, email |-> req[w].email,
                       password |-> req[w].password]}
                /\ users' = IF kind = "user" THEN users \cup {oid} ELSE users
                /\ companies' = IF kind = "company" THEN companies \cup {oid}
                                ELSE companies
                /\ nextUser' = IF kind = "user" THEN nextUser + 1 ELSE nextUser
                /\ nextCompany' = IF kind = "company" THEN nextCompany + 1
                                  ELSE nextCompany
                /\ issued' = IF op \in {"register_user", "register_company"}
                             THEN issued \cup {Issue(oid, kind)} ELSE issued
                /\ last' = Answer(op, 201)
    /\ req' = [req EXCEPT ![w] = Idle]
    /\ UNCHANGED accountFrame

\* update_user (behind login_required) and update_company (behind
\* company_required) up to the email check: 404, 403 for anyone but the
\* principal itself, 400 when no allowed field is in the body, 409 when
\* find_by_email finds another principal's document.
AccountUpdates == [nom : BOOLEAN, email : Emails]

update_principal_response(op, g, id, data) ==
    LET existing == find_by_email(KindOf(op), data.email)
    IN  IF g.status # 0 THEN g.status
        ELSE IF find_by_id(KindOf(op), id) = {} THEN 404
        ELSE IF g.user_type # KindOf(op) \/ g.user_id # id THEN 403
        ELSE IF ~data.nom THEN 400
        ELSE IF /\ existing # {}
                /\ Str((CHOOSE a \in existing : TRUE)._id) # id
        THEN 409
        ELSE 0

update_principal_begin(w, op, headers, id, data) ==
    /\ Free(w)
    /\ SameCollection(w, op)
    /\ LET g == IF op = "update_user"
                THEN login_required(headers, session, now, jwtRule)
                ELSE company_required(headers, session, now, jwtRule)
           code == update_principal_response(op, g, id, data)
       IN  IF code # 0
           THEN /\ req' = [req EXCEPT ![w] = Idle]
                /\ last' = Answer(op, code)
           ELSE /\ req' = [req EXCEPT ![w] =
                     [Idle EXCEPT !.op = op, !.pc = "update", !.user_id = id,
                                  !.email = data.email]]
                /\ last' = NoRequest
    /\ UNCHANGED <<users, companies, accounts, nextUser, nextCompany, issued>>
    /\ UNCHANGED accountFrame

\* User.update / Company.update: update_one with $set under the unique
\* index; date_modification is set, so a matched document is modified.
Principal_update(w) ==
    /\ req[w].pc = "update"
    /\ LET op == req[w].op
           kind == KindOf(op)
           oid == ObjectId(req[w].user_id)
           DuplicateKeyError == \E a \in accounts : /\ a.kind = kind
                                                    /\ a._id # oid
                                                    /\ a.email = req[w].email
       IN  IF DuplicateKeyError
           THEN /\ last' = Answer(op, 500)
                /\ UNCHANGED accounts
           ELSE /\ accounts' = update_document(accounts,
                     LAMBDA a : a.kind = kind /\ a._id = oid,
                     LAMBDA a : [a EXCEPT !.email = req[w].email])
                /\ last' = Answer(op, 200)
    /\ req' = [req EXCEPT ![w] = Idle]
    /\ UNCHANGED <<users, companies, nextUser, nextCompany, issued>>
    /\ UNCHANGED accountFrame

\* change_password, taken whole: behind login_required; 400 for an empty or
\* too short new password, 404, 401 when current_password is not the stored
\* one, then update with the new password.
change_password(headers, knows_current, new_password) ==
    LET g == login_required(headers, session, now, jwtRule)
        found == find_by_id(g.user_type, g.user_id)
        code == IF new_password = 0 THEN 400
                ELSE IF ~validate_password(new_password) THEN 400
                ELSE IF found = {} THEN 404
                ELSE IF ~knows_current THEN 401
                ELSE 200
    IN  /\ accounts' =
              IF g.status = 0 /\ code = 200
              THEN update_document(accounts,
                     LAMBDA a : /\ a.kind = g.user_type
                                /\ a._id = ObjectId(g.user_id),
                     LAMBDA a : [a EXCEPT !.password = new_password])
              ELSE accounts
        /\ last' = Answer("change_password",
                          IF g.status # 0 THEN g.status ELSE code)
        /\ UNCHANGED <<users, companies, nextUser, nextCompany, issued, req>>
        /\ UNCHANGED accountFrame

\* One user and one company are registered; the rest arrives.
InitAccounts ==
    /\ users = {Oid("u", 1)}
    /\ companies = {Oid("c", 1)}
    /\ accounts = AccountsOf(users, companies)
    /\ jobs = {}
    /\ applications = {}
    /\ nextJob = 0
    /\ nextApp = 0
    /\ nextUser = 1
    /\ nextCompany = 1
    /\ req = [w \in Workers |-> Idle]
    /\ raced = {}
    /\ now = 0
    /\ jwtRule = "float_le"
    /\ bcryptRule = "truncate"
    /\ session = NoSession
    /\ issued = {Issue(Oid("u", 1), "user"), Issue(Oid("c", 1), "company")}
    /\ last = NoRequest

NextAccounts ==
    \/ \E w \in Workers, op \in CreateRoutes,
          data \in [email : Emails, password : PasswordInputs] :
          create_principal_begin(w, op, data)
    \/ \E w \in Workers : Principal_save(w)
    \/ \E w \in Workers, op \in UpdateRoutes, h \in ClientHeaders,
          a \in accounts, data \in AccountUpdates :
          update_principal_begin(w, op, h, Str(a._id), data)
    \/ \E w \in Workers : Principal_update(w)
    \/ \E h \in ClientHeaders, knows_current \in BOOLEAN,
          new_password \in PasswordInputs :
          change_password(h, knows_current, new_password)
SpecAccounts == InitAccounts /\ [][NextAccounts]_vars

\* --------------------------------------------------------------- SpecList
\* The routes that list applications, asked without page and limit (the
\* defaults hold every stored application in the first page).  last keeps
\* the applications returned.
ListJobOids == {Oid("j", n) : n \in 1..MaxPrincipals}
StatutFilters == {"", "En attente", "Refusée"}

Listed(op, g, code, target, items) ==
    [op |-> op, status |-> IF g.status # 0 THEN g.status ELSE code,
     user_id |-> g.user_id, user_type |-> g.user_type, target |-> target,
     items |-> IF g.status = 0 /\ code = 200 THEN items ELSE {}]

listFrame == <<users, companies, accounts, jobs, applications, nextJob,
               nextApp, nextUser, nextCompany, req, raced, now, jwtRule,
               bcryptRule, session, issued>>

\* get_all_applications: behind login_required; a user gets find_by_user, a
\* company find_by_company, any other kind find_all; with a statut the
\* applications of that status, filtered by the requester for the two kinds.
get_all_applications(headers, statut) ==
    LET g == login_required(headers, session, now, jwtRule)
        by_status == {a \in applications : a.statut = statut}
        items ==
            IF g.user_type = "user"
            THEN IF statut # ""
                 THEN {a \in by_status : a.user_id = g.user_id}
                 ELSE {a \in applications : a.user_id = g.user_id}
            ELSE IF g.user_type = "company"
            THEN IF statut # ""
                 THEN {a \in by_status : a.company_id = g.user_id}
                 ELSE {a \in applications : a.company_id = g.user_id}
            ELSE IF statut # "" THEN by_status ELSE applications
    IN  /\ last' = Listed("get_all_applications", g, 200, NoIdStr, items)
        /\ UNCHANGED listFrame

\* get_user_applications: behind login_required; 403 when a user asks for
\* another user's; then find_by_user(user_id).
get_user_applications(headers, user_id) ==
    LET g == login_required(headers, session, now, jwtRule)
        code == IF g.user_type = "user" /\ g.user_id # user_id THEN 403 ELSE 200
    IN  /\ last' = Listed("get_user_applications", g, code, user_id,
                          {a \in applications : a.user_id = user_id})
        /\ UNCHANGED listFrame

\* get_company_applications: behind company_required; 403 for another
\* company's id; then find_by_company(company_id), filtered by statut.
get_company_applications(headers, company_id, statut) ==
    LET g == company_required(headers, session, now, jwtRule)
        code == IF g.user_id # company_id THEN 403 ELSE 200
        found == {a \in applications : a.company_id = company_id}
    IN  /\ last' = Listed("get_company_applications", g, code, company_id,
                          IF statut # "" THEN {a \in found : a.statut = statut}
                          ELSE found)
        /\ UNCHANGED listFrame

\* get_job_applications: behind company_required; 404 without the job, 403
\* for another company's job; then find_by_job(job_id).
get_job_applications(headers, job_id) ==
    LET g == company_required(headers, session, now, jwtRule)
        job == Job_find_by_id(job_id)
        code == IF job = {} THEN 404
                ELSE IF \E j \in job : j.company_id # g.user_id THEN 403
                ELSE 200
    IN  /\ last' = Listed("get_job_applications", g, code, job_id,
                          {a \in applications : a.job_id = job_id})
        /\ UNCHANGED listFrame

\* Every company has posted one job; users have applied to some of them.
InitList ==
    /\ users = UserOids
    /\ companies = CompanyOids
    /\ accounts = AccountsOf(UserOids, CompanyOids)
    /\ now = 1
    /\ jobs = {NewJob(Oid("j", n), Str(Oid("c", n))) : n \in 1..MaxPrincipals}
    /\ \E n \in 0..MaxApps :
         \E f \in [1..n -> UserOids \X (1..MaxPrincipals)] :
            /\ \A i \in 1..n, k \in 1..n : f[i] = f[k] => i = k
            /\ applications =
                  {NewApplication(Oid("a", i), Str(f[i][1]),
                                  Str(Oid("j", f[i][2])), Str(Oid("c", f[i][2]))) :
                   i \in 1..n}
            /\ nextApp = n
    /\ nextJob = MaxPrincipals
    /\ nextUser = MaxPrincipals
    /\ nextCompany = MaxPrincipals
    /\ req = [w \in Workers |-> Idle]
    /\ raced = {}
    /\ jwtRule = "float_le"
    /\ bcryptRule = "truncate"
    /\ session = NoSession
    /\ issued = {Issue(u, "user") : u \in UserOids}
                \cup {Issue(c, "company") : c \in CompanyOids}
    /\ last = NoRequest

NextList ==
    \/ \E h \in OwnerHeaders, statut \in StatutFilters :
          get_all_applications(h, statut)
    \/ \E h \in OwnerHeaders, u \in CanonStrings(UserOids) :
          get_user_applications(h, u)
    \/ \E h \in OwnerHeaders, c \in CanonStrings(CompanyOids),
          statut \in StatutFilters :
          get_company_applications(h, c, statut)
    \/ \E h \in OwnerHeaders, j \in CanonStrings(ListJobOids) :
          get_job_applications(h, j)
SpecList == InitList /\ [][NextList]_vars

\* ----------------------------------------------------------- SpecPassword
\* Passwords as bcrypt sees them.  bcrypt reads at most the first 72 bytes of
\* a password: hashpw and checkpw of a longer one either cut it there or
\* raise ValueError, as the installed bcrypt decides (no version is pinned).
\* A password is its length in bytes, its first 72 bytes and the rest.
BcryptLimit == 72
\* Salts that gensalt can draw.
MaxSalts == 1
Salts == 1..MaxSalts
BcryptRules == {"truncate", "raise"}
ValueError == [salt |-> 0, digest |-> <<"ValueError">>]

Password(len, head, rest) == [len |-> len, head |-> head, rest |-> rest]
NoPassword == Password(0, "", "")
PasswordTexts ==
    {NoPassword,
     Password(MinPasswordLength - 1, "short", ""),
     Password(MinPasswordLength, "secret", ""),
     Password(MinPasswordLength, "hunter", ""),
     Password(BcryptLimit + 1, "long", "x"),
     Password(BcryptLimit + 1, "long", "y")}

\* A hash that forgets the password it was given.
hashpw_keep(password, salt) ==
    [salt |-> salt, digest |-> <<salt, "secret">>]

\* bcrypt.hashpw(password, salt): the digest depends on the salt and on the
\* first 72 bytes.
hashpw(password, salt) ==
    IF password.len > BcryptLimit /\ bcryptRule = "raise"
    THEN ValueError
    ELSE [salt |-> salt, digest |-> <<salt, password.head>>]

\* bcrypt.checkpw(password, hashed): hashes password under the salt of hashed
\* and compares.
checkpw(password, hashed) ==
    LET again == hashpw(password, hashed.salt)
    IN  IF again = ValueError THEN "ValueError"
        ELSE IF again = hashed THEN "yes" ELSE "no"

passwordFrame == <<users, companies, jobs, applications, nextJob, nextApp,
                   nextUser, nextCompany, req, raced, now, jwtRule, bcryptRule>>

\* login: 400 for a missing field or a user_type other than user and company,
\* 401 when no principal of that kind has the email or the password is not
\* the stored one, 500 when checkpw raises; else a token for the principal
\* found, of the kind asked for, also kept in the session.
login_find(data) ==
    IF data.user_type = "user" THEN find_by_email("user", data.email)
    ELSE find_by_email("company", data.email)

\* A login that takes any user_type it is given.
login_response_any_type(data) ==
    LET found == login_find(data)
    IN  IF data.password = NoPassword \/ data.user_type = "" THEN 400
        ELSE IF found = {} THEN 401
        ELSE LET user == CHOOSE a \in found : TRUE
                 ok == checkpw(data.password, user.password)
             IN  IF ok = "ValueError" THEN 500
                 ELSE IF ok = "no" THEN 401 ELSE 200

login_response(data) ==
    LET found == login_find(data)
    IN  IF data.password = NoPassword \/ data.user_type = "" THEN 400
        ELSE IF data.user_type \notin {"user", "company"} THEN 400
        ELSE IF found = {} THEN 401
        ELSE LET user == CHOOSE a \in found : TRUE
                 ok == checkpw(data.password, user.password)
             IN  IF ok = "ValueError" THEN 500
                 ELSE IF ok = "no" THEN 401 ELSE 200

login_password(data) ==
    LET code == login_response(data)
        found == login_find(data)
        user == CHOOSE a \in found : TRUE
    IN  /\ IF code = 200
           THEN /\ issued' = issued \cup {Issue(user._id, data.user_type)}
                /\ session' = [has |-> TRUE,
                               token |-> generate_token(user._id,
                                                        data.user_type, now)]
           ELSE UNCHANGED <<issued, session>>
        /\ UNCHANGED accounts
        /\ UNCHANGED passwordFrame
        /\ last' = [op |-> "login", status |-> code, email |-> data.email,
                    user_id |-> IF found = {} THEN NoIdStr ELSE Str(user._id),
                    user_type |-> data.user_type, password |-> data.password,
                    current |-> NoPassword,
                    token |-> IF code = 200
                              THEN generate_token(user._id, data.user_type, now)
                              ELSE NoToken]

\* change_password: behind login_required; 400 for a missing password or a
\* new one under 6 characters, 404, 401 when current_password is not the
\* stored one, then User.update or Company.update stores hashpw of the new
\* one under a fresh salt; 500 when bcrypt raises.
change_password_response(g, current_password, new_password) ==
    LET found == find_by_id(g.user_type, g.user_id)
    IN  IF current_password = NoPassword \/ new_password = NoPassword THEN 400
        ELSE IF ~validate_password(new_password.len) THEN 400
        ELSE IF found = {} THEN 404
        ELSE LET user == CHOOSE a \in found : TRUE
                 ok == checkpw(current_password, user.password)
             IN  IF ok = "ValueError" THEN 500
                 ELSE IF ok = "no" THEN 401
                 ELSE IF hashpw(new_password, 1) = ValueError THEN 500
                 ELSE 200

change_password_bcrypt(headers, current_password, new_password, salt) ==
    LET g == login_required(headers, session, now, jwtRule)
        code == IF g.status # 0 THEN g.status
                ELSE change_password_response(g, current_password, new_password)
    IN  /\ accounts' =
              IF code = 200
              THEN update_document(accounts,
                     LAMBDA a : /\ a.kind = g.user_type
                                /\ a._id = ObjectId(g.user_id),
                     LAMBDA a : [a EXCEPT !.password = hashpw(new_password, salt)])
              ELSE accounts
        /\ UNCHANGED <<issued, session>>
        /\ UNCHANGED passwordFrame
        /\ last' = [op |-> "change_password", status |-> code,
                    email |-> 0, user_id |-> g.user_id,
                    user_type |-> g.user_type,
                    password |-> new_password, current |-> current_password,
                    token |-> RequestToken(headers, session)]

\* One user and one company, registered under the same email with the
\* password "secret"; each holds its registration token.
UserTypeInputs == {"", "user", "company", "admin"}
InitPassword ==
    /\ users = {Oid("u", 1)}
    /\ companies = {Oid("c", 1)}
    /\ accounts = {[Account(a.kind, a._id) EXCEPT
                        !.password = [salt |-> 1, digest |-> <<1, "secret">>]] :
                    a \in AccountsOf(users, companies)}
    /\ jobs = {}
    /\ applications = {}
    /\ nextJob = 0
    /\ nextApp = 0
    /\ nextUser = 1
    /\ nextCompany = 1
    /\ req = [w \in Workers |-> Idle]
    /\ raced = {}
    /\ now = 1
    /\ jwtRule = "float_le"
    /\ bcryptRule \in BcryptRules
    /\ session = NoSession
    /\ issued = {Issue(Oid("u", 1), "user"), Issue(Oid("c", 1), "company")}
    /\ last = NoRequest

\* The passwords tried as the stored one: no client's stored password is short.
LoginPasswords == {p \in PasswordTexts : p = NoPassword \/ validate_password(p.len)}

NextPassword ==
    \/ \E email \in Emails, password \in LoginPasswords, user_type \in UserTypeInputs :
          login_password([email |-> email, password |-> password,
                          user_type |-> user_type])
    \/ \E i \in issued, current \in LoginPasswords, new \in PasswordTexts,
          salt \in Salts :
          change_password_bcrypt(Bearer(i.token), current, new, salt)
SpecPassword == InitPassword /\ [][NextPassword]_vars

\* -------------------------------------------------------------- SpecIssue
\* Where tokens come from: register_user, register_company and login, with
\* bcrypt passwords; users delete themselves; clients ask for the list of
\* applications with issued tokens and with tokens altered to another kind.
\* register_user / register_company: 400 for a missing or short password,
\* 409 for an email of that collection, 500 when bcrypt raises; else the
\* principal is stored and a token of its kind and id is returned.
register_response(kind, data) ==
    IF data.password = NoPassword THEN 400
    ELSE IF ~validate_password(data.password.len) THEN 400
    ELSE IF find_by_email(kind, data.email) # {} THEN 409
    ELSE IF hashpw(data.password, 1) = ValueError THEN 500
    ELSE 201

register(kind, data, salt) ==
    LET code == register_response(kind, data)
        n == IF kind = "user" THEN nextUser ELSE nextCompany
        oid == Oid(IF kind = "user" THEN "u" ELSE "c", n + 1)
    IN  /\ n < MaxRegistered
        /\ IF code = 201
           THEN /\ accounts' = accounts \cup
                      {[kind |-> kind, _id |-> oid, email |-> data.email,
                        password |-> hashpw(data.password, salt)]}
                /\ users' = IF kind = "user" THEN users \cup {oid} ELSE users
                /\ companies' = IF kind = "company" THEN companies \cup {oid}
                                ELSE companies
                /\ nextUser' = IF kind = "user" THEN n + 1 ELSE nextUser
                /\ nextCompany' = IF kind = "company" THEN n + 1 ELSE nextCompany
                /\ issued' = issued \cup {Issue(oid, kind)}
           ELSE UNCHANGED <<accounts, users, companies, nextUser, nextCompany,
                            issued>>
        /\ UNCHANGED <<jobs, applications, nextJob, nextApp, req, raced, now,
                       jwtRule, bcryptRule, session>>
        /\ last' = [op |-> "register", status |-> code, email |-> data.email,
                    user_id |-> IF code = 201 THEN Str(oid) ELSE NoIdStr,
                    user_type |-> kind, password |-> data.password,
                    current |-> NoPassword,
                    token |-> IF code = 201 THEN generate_token(oid, kind, now)
                              ELSE NoToken]

\* Issued tokens whose user_type a client rewrote, under the old signature
\* and under a key of the client's.
OtherKindTokens ==
    {[payload |-> [i.token.payload EXCEPT !.user_type = "admin"],
      sig |-> i.token.sig] : i \in issued}
    \cup {[payload |-> [i.token.payload EXCEPT !.user_type = "admin"],
           sig |-> HS256([i.token.payload EXCEPT !.user_type = "admin"], "guess")] :
          i \in issued}
IssueHeaders ==
    {Bearer(i.token) : i \in issued} \cup {Bearer(t) : t \in OtherKindTokens}

InitIssue ==
    /\ users = {}
    /\ companies = {}
    /\ accounts = {}
    /\ jobs = {}
    /\ applications = {}
    /\ nextJob = 0
    /\ nextApp = 0
    /\ nextUser = 0
    /\ nextCompany = 0
    /\ req = [w \in Workers |-> Idle]
    /\ raced = {}
    /\ now = 1
    /\ jwtRule = "float_le"
    /\ bcryptRule \in BcryptRules
    /\ session = NoSession
    /\ issued = {}
    /\ last = NoRequest

NextIssue ==
    \/ \E kind \in {"user", "company"}, email \in Emails,
          password \in PasswordTexts, salt \in Salts :
          register(kind, [email |-> email, password |-> password], salt)
    \/ \E email \in Emails, password \in LoginPasswords,
          user_type \in UserTypeInputs :
          login_password([email |-> email, password |-> password,
                          user_type |-> user_type])
    \/ \E i \in issued :
          i.kind = "user" /\ delete_user(Bearer(i.token), Str(i.id))
    \/ \E h \in IssueHeaders : get_all_applications(h, "")
SpecIssue == InitIssue /\ [][NextIssue]_vars

\* -------------------------------------------------------------- SpecPages
\* The listing routes get_all_users and get_all_companies over collections
\* of every size up to MaxListed, which do not change while they are listed.

MaxListed == 3
PageCap == 100
DefaultLimit == 10

\* A query argument: absent, or an integer in decimal.
NoArg == [given |-> FALSE, value |-> 0]
Given(v) == [given |-> TRUE, value |-> v]
PageInputs == {NoArg} \cup {Given(v) : v \in -1..(MaxListed + 1)}
LimitInputs ==
    {NoArg} \cup {Given(v) : v \in (-2..MaxListed) \cup {PageCap, PageCap + 1, 1000}}

\* int(request.args.get(name, default))
request_args_get(arg, default) == IF arg.given THEN arg.value ELSE default

Min(a, b) == IF a < b THEN a ELSE b
Abs(a) == IF a < 0 THEN -a ELSE a

\* Python's // : the floor of the quotient, for a divisor of either sign.
FloorDiv(a, b) == IF b > 0 THEN a \div b ELSE (-a) \div (-b)

\* sort=[('date_creation', -1)]: documents are created in the order of their
\* serials, so the latest serial comes first.
RECURSIVE Sorted(_)
Sorted(oids) ==
    IF oids = {} THEN <<>>
    ELSE LET latest == CHOOSE o \in oids : \A p \in oids : p[2] <= o[2]
         IN  <<latest>> \o Sorted(oids \ {latest})

\* find_documents that leaves the skip out.
find_documents_no_skip(sorted, skip, limit) ==
    SubSeq(sorted, 1, IF limit = 0 THEN Len(sorted)
                      ELSE Min(Abs(limit), Len(sorted)))

\* find_documents on the sorted cursor: cursor.skip(skip) when skip is not
\* 0, cursor.limit(limit) when limit is not 0; a negative limit is taken by
\* the server as its absolute value.  (cursor.skip raises ValueError on a
\* negative skip; the routes answer that with 500.)
find_documents(sorted, skip, limit) ==
    LET skipped == IF skip # 0 THEN SubSeq(sorted, skip + 1, Len(sorted))
                   ELSE sorted
    IN  SubSeq(skipped, 1, IF limit = 0 THEN Len(skipped)
                           ELSE Min(Abs(limit), Len(skipped)))

\* What a listing answers; items is empty on an error.
Listing(op, status, page, limit, total, pages, items, args) ==
    [op |-> op, status |-> status, page |-> page, limit |-> limit,
     total |-> total, pages |-> pages, items |-> items, args |-> args]

\* get_all_users / get_all_companies: page, limit = min(limit, 100), skip,
\* find_all, count_all, and the number of pages; an exception (ValueError of
\* cursor.skip, ZeroDivisionError of the page count) is answered 500.
get_all(op, coll, page_arg, limit_arg) ==
    LET page == request_args_get(page_arg, 1)
        limit == Min(request_args_get(limit_arg, DefaultLimit), PageCap)
        skip == (page - 1) * limit
        total == Cardinality(coll)
        args == [page |-> page_arg, limit |-> limit_arg]
    IN  IF skip < 0 \/ limit = 0
        THEN Listing(op, 500, page, limit, total, 0, <<>>, args)
        ELSE Listing(op, 200, page, limit, total,
                     FloorDiv(total + limit - 1, limit),
                     find_documents(Sorted(coll), skip, limit), args)

pageFrame == <<users, companies, accounts, jobs, applications, nextJob,
               nextApp, nextUser, nextCompany, req, raced, now, jwtRule, bcryptRule,
               session, issued>>

get_all_users(page_arg, limit_arg) ==
    /\ last' = get_all("get_all_users", users, page_arg, limit_arg)
    /\ UNCHANGED pageFrame

get_all_companies(page_arg, limit_arg) ==
    /\ last' = get_all("get_all_companies", companies, page_arg, limit_arg)
    /\ UNCHANGED pageFrame

InitPages ==
    /\ \E n \in 0..MaxListed : users = {Oid("u", i) : i \in 1..n}
    /\ \E n \in 0..1 : companies = {Oid("c", i) : i \in 1..n}
    /\ accounts = AccountsOf(users, companies)
    /\ jobs = {}
    /\ applications = {}
    /\ nextJob = 0
    /\ nextApp = 0
    /\ nextUser = Cardinality(users)
    /\ nextCompany = Cardinality(companies)
    /\ req = [w \in Workers |-> Idle]
    /\ raced = {}
    /\ now = 0
    /\ jwtRule = "float_le"
    /\ bcryptRule = "truncate"
    /\ session = NoSession
    /\ issued = {}
    /\ last = Listing("", 0, 0, 0, 0, 0, <<>>, [page |-> NoArg, limit |-> NoArg])

NextPages ==
    \/ \E p \in PageInputs, l \in LimitInputs : get_all_users(p, l)
    \/ \E p \in PageInputs, l \in LimitInputs : get_all_companies(p, l)
SpecPages == InitPages /\ [][NextPages]_vars

\* ------------------------------------------------------------- SpecSearch
\* get_all_jobs with its three filters over up to three jobs of company c1,
\* which the company may deactivate.  A string is the sequence of its
\* characters; page and limit are left at their defaults, which hold every
\* job here on the first page.

Lower(c) == IF c = "A" THEN "a" ELSE IF c = "B" THEN "b" ELSE c

\* {'$regex': pattern, '$options': 'i'} on one string: the pattern is a
\* regular expression, searched anywhere in the text without regard to
\* case; '.' stands for any character, and an unbalanced '(' is not a
\* regular expression.
RegexValid(pattern) == \A k \in 1..Len(pattern) : pattern[k] # "("
RegexSearch(pattern, text) ==
    \E off \in 0..(Len(text) - Len(pattern)) :
       \A k \in 1..Len(pattern) :
          \/ pattern[k] = "."
          \/ Lower(pattern[k]) = Lower(text[off + k])

\* The jobs there are to search.
SearchJobs ==
    {[_id |-> Oid("j", 1), company_id |-> Str(Oid("c", 1)),
      titre |-> <<"a", "b">>, description |-> <<"b">>,
      competences_requises |-> {<<"A">>}, localisation |-> <<"a">>,
      type_contrat |-> "CDI", actif |-> TRUE, candidatures_count |-> 0],
     [_id |-> Oid("j", 2), company_id |-> Str(Oid("c", 1)),
      titre |-> <<"b">>, description |-> <<"b">>,
      competences_requises |-> {<<"b">>}, localisation |-> <<"A", "b">>,
      type_contrat |-> "CDD", actif |-> TRUE, candidatures_count |-> 0],
     [_id |-> Oid("j", 3), company_id |-> Str(Oid("c", 1)),
      titre |-> <<"b", ".">>, description |-> <<"b">>,
      competences_requises |-> {}, localisation |-> <<"b">>,
      type_contrat |-> "CDI", actif |-> TRUE, candidatures_count |-> 0]}

\* Query arguments; the empty string is an argument left out.
SearchInputs == {<<>>, <<"a">>, <<"A">>, <<".">>, <<"(">>, <<"a", "b">>}
LocalisationInputs == {<<>>, <<"a">>, <<"B">>, <<".">>}
TypeContratInputs == {"", "CDI", "cdi"}

\* Job.search_jobs (and Job.find_all when no filter is given): the query
\* {'actif': True}, '$or' of the text on titre, description and
\* competences_requises, localisation, type_contrat.
search_jobs(query_text, localisation, type_contrat) ==
    {job \in jobs :
        /\ job.actif
        /\ query_text # <<>> =>
              \/ RegexSearch(query_text, job.titre)
              \/ RegexSearch(query_text, job.description)
              \/ \E c \in job.competences_requises : RegexSearch(query_text, c)
        /\ localisation # <<>> => RegexSearch(localisation, job.localisation)
        /\ type_contrat # "" => job.type_contrat = type_contrat}

\* get_all_jobs: 200 with the jobs found, 500 when the database refuses the
\* query.
get_all_jobs(search, localisation, type_contrat) ==
    /\ last' =
         [op |-> "get_all_jobs",
          status |-> IF RegexValid(search) /\ RegexValid(localisation)
                     THEN 200 ELSE 500,
          items |-> IF RegexValid(search) /\ RegexValid(localisation)
                    THEN {job._id :
                            job \in search_jobs(search, localisation,
                                                type_contrat)}
                    ELSE {},
          args |-> [search |-> search, localisation |-> localisation,
                    type_contrat |-> type_contrat]]
    /\ UNCHANGED <<jobs, nextJob>>
    /\ UNCHANGED jobFrame

InitSearch ==
    /\ users = {}
    /\ companies = {Oid("c", 1)}
    /\ accounts = AccountsOf(users, companies)
    /\ jobs \in SUBSET SearchJobs
    /\ applications = {}
    /\ nextJob = Cardinality(SearchJobs)
    /\ nextApp = 0
    /\ nextUser = 0
    /\ nextCompany = 1
    /\ req = [w \in Workers |-> Idle]
    /\ raced = {}
    /\ now = 0
    /\ jwtRule = "float_le"
    /\ bcryptRule = "truncate"
    /\ session = NoSession
    /\ issued = {Issue(Oid("c", 1), "company")}
    /\ last = NoRequest

NextSearch ==
    \/ \E s \in SearchInputs, l \in LocalisationInputs, t \in TypeContratInputs :
          get_all_jobs(s, l, t)
    \/ \E h \in ClientHeaders, job \in jobs :
          deactivate_job(h, Str(job._id)) /\ last' = NoRequest
SpecSearch == InitSearch /\ [][NextSearch]_vars

\* ------------------------------------------------------------------ claims

ApplicationsOf(job) == {d \in applications : ObjectId(d.job_id) = job._id}

CountsMatch ==
    \A job \in jobs : job.candidatures_count = Cardinality(ApplicationsOf(job))

\* C2: with one request at a time, after every completed request the
\* candidatures_count of each stored job is the number of stored applications
\* of that job.
C2_CountMatchesSequential == Quiet => CountsMatch

\* C3: whatever the interleaving of create_application and delete_application,
\* once every request has completed the candidatures_count of each stored job
\* is what a recount of its applications returns.
C3_NoDriftWhenQuiet ==
    (\A w \in Workers : ~Busy(w)) =>
        \A job \in jobs : job.candidatures_count = CountByJobId(Str(job._id))

\* C4: a create_application that arrives while an application of the same
\* user for the same job is stored (its own request completed), the job being
\* stored and active, ends with 409 and inserts nothing.
C4_LaterCreateConflicts ==
    [][\A w \in Workers :
          ( /\ req'[w].op = "create_application"
            /\ req'[w].pc = "done"
            /\ req[w] # req'[w]
            /\ req'[w].prior # NoOid
            /\ \E d \in applications : d._id = req'[w].prior
            /\ \E job \in jobs : job._id = ObjectId(req'[w].job_id) /\ job.actif )
          => ( /\ req'[w].status = 409
               /\ req'[w].new_id = NoOid
               /\ applications' = applications
               /\ jobs' = jobs )]_vars

\* C5: when two create_application requests for one pair have both passed the
\* route's duplicate check before either inserted, each ends with 201 or 409,
\* never with 500, and not both with 201.
C5_RaceLoserGetsConflict ==
    /\ \A w \in raced : req[w].pc = "done" => req[w].status \in {201, 409}
    /\ \A w \in raced, v \in raced :
          (w # v /\ req[w].pc = "done" /\ req[v].pc = "done")
              => ~(req[w].status = 201 /\ req[v].status = 201)

ProtectedOps == {"logout", "delete_user", "delete_company", "create_job"}
CompanyOnlyOps == {"delete_company", "create_job"}

\* C6: the handler of a protected operation runs only when verify_token
\* accepts the request's token, and then with that token's user_id and
\* user_type as request context; when the request has no token or one that
\* verify_token rejects, the answer is 401, the handler does not run and no
\* stored collection changes.
C6_HandlerRunsOnlyVerified ==
    last.op \in ProtectedOps =>
        /\ last.ran => /\ last.verified
                       /\ last.user_id = last.token.payload.user_id
                       /\ last.user_type = last.token.payload.user_type
        /\ ~last.verified => /\ last.status = 401
                             /\ ~last.ran
                             /\ ~last.changed

\* C6 witness: a protected handler ran under a verified token and changed a
\* stored collection.
C6_RanWithToken ==
    /\ last.op \in ProtectedOps
    /\ last.verified
    /\ last.ran
    /\ last.changed

\* C7: on a company-only operation a verified token of another kind gets 403,
\* and a missing or rejected token gets 401, whatever kind it names; in both
\* cases the handler does not run and no stored collection changes.
C7_CompanyOnly ==
    last.op \in CompanyOnlyOps =>
        /\ (last.verified /\ last.token.payload.user_type # "company")
              => (last.status = 403 /\ ~last.ran /\ ~last.changed)
        /\ ~last.verified => (last.status = 401 /\ ~last.ran /\ ~last.changed)

\* C7 witness: a verified user token was refused with 403 on a company-only
\* operation.
C7_UserTokenForbidden ==
    /\ last.op \in CompanyOnlyOps
    /\ last.verified
    /\ last.token.payload.user_type = "user"
    /\ last.status = 403

\* C8: at every instant before the exp of an issued token, verify_token
\* returns a payload with the printed id and the kind generate_token was
\* called with.
C8_VerifyReturnsIssued ==
    \A i \in issued :
        now < i.token.payload.exp * TicksPerSecond =>
            LET payload == verify_token(i.token, now, jwtRule)
            IN  /\ payload # NoPayload
                /\ payload.user_id = Str(i.id)
                /\ payload.user_type = i.kind

\* C8 witness: a company's token, one tick before its exp, carried a request
\* through a gate.
C8_VerifiedBeforeExpiry ==
    \E i \in issued :
        /\ i.kind = "company"
        /\ now + 1 = i.token.payload.exp * TicksPerSecond
        /\ last.ran
        /\ last.token = i.token
        /\ last.user_id = Str(i.id)

Accepted(i, t) == verify_token(i.token, t, jwtRule) # NoPayload

\* C9 as stated: an issued token is accepted at every instant up to 3600 s
\* after the call that issued it and rejected at every later instant, and a
\* token once rejected is not accepted again.
C9_AcceptedThrough3600 ==
    /\ [](\A i \in issued :
            Accepted(i, now)
                <=> now <= i.at + JWT_ACCESS_TOKEN_EXPIRES * TicksPerSecond)
    /\ [][\A i \in issued : ~Accepted(i, now) => ~Accepted(i, now')]_vars

\* The exp of a token issued at tick t: the whole seconds of t, plus 3600.
ExpOf(t) == Seconds(t) + JWT_ACCESS_TOKEN_EXPIRES

\* C9 amended: an issued token is accepted at every instant before its exp
\* (the issuing time cut to whole seconds, plus 3600 s) and rejected at every
\* instant from one second after its exp; and a token once rejected is not
\* accepted again.
C9_AcceptedBeforeExpRejectedAfter ==
    /\ [](\A i \in issued :
            /\ now < ExpOf(i.at) * TicksPerSecond => Accepted(i, now)
            /\ now >= (ExpOf(i.at) + 1) * TicksPerSecond => ~Accepted(i, now))
    /\ [][\A i \in issued : ~Accepted(i, now) => ~Accepted(i, now')]_vars

\* C9 witness: a token issued between two whole seconds was refused by a
\* gate more than a second after its exp.
C9_RefusedAfterExpiry ==
    \E i \in issued :
        /\ i.at % TicksPerSecond # 0
        /\ now >= (ExpOf(i.at) + 1) * TicksPerSecond
        /\ last.op \in ProtectedOps
        /\ last.token = i.token
        /\ last.status = 401

\* C10: whatever is stored and whatever the session holds, both gates admit
\* an issued token presented in the Authorization header exactly when
\* verify_token accepts it at that instant.
C10_DecisionFromTokenAndTime ==
    \A i \in issued :
        /\ login_required(Bearer(i.token), session, now, jwtRule).status = 0
              <=> Accepted(i, now)
        /\ company_required(Bearer(i.token), session, now, jwtRule).status # 401
              <=> Accepted(i, now)

\* C10 witness: logout ran under the token of a principal that is no longer
\* stored, and the gate still admits that token.
C10_DeletedPrincipalStillAdmitted ==
    \E i \in issued :
        /\ i.id \notin users \cup companies
        /\ last.op = "logout"
        /\ last.ran
        /\ last.token = i.token
        /\ session = NoSession
        /\ login_required(Bearer(i.token), session, now, jwtRule).status = 0

\* A create_application request of a user, with a job_id in its body, is
\* taken up by worker w in this step.
CreateArrives(w) ==
    /\ ~Busy(w)
    /\ req'[w] # req[w]
    /\ req'[w].op = "create_application"
    /\ req'[w].job_id # NoIdStr
    /\ ~(req'[w].pc = "done" /\ req'[w].status = 403)

\* C11: a create_application that arrives when its job_id resolves to no
\* stored job ends with 404, and one that arrives when the job is stored but
\* not active ends with 400; neither inserts an application nor changes a job.
C11_MissingOrInactiveJobFails ==
    [][\A w \in Workers :
          CreateArrives(w) =>
              LET found == {d \in jobs : d._id = ObjectId(req'[w].job_id)}
                  refused(code) == /\ req'[w].pc = "done"
                                   /\ req'[w].status = code
                                   /\ req'[w].new_id = NoOid
                                   /\ applications' = applications
                                   /\ jobs' = jobs
              IN  /\ found = {} => refused(404)
                  /\ (found # {} /\ \A job \in found : ~job.actif)
                        => refused(400)]_vars

\* C11 witness: a user's create_application for a stored, deactivated job
\* has ended with 400.
C11_InactiveJobRefused ==
    \E w \in Workers :
        /\ req[w].op = "create_application"
        /\ req[w].pc = "done"
        /\ req[w].status = 400
        /\ req[w].job_id # NoIdStr
        /\ \E job \in jobs : job._id = ObjectId(req[w].job_id) /\ ~job.actif

\* C14: a create_application whose principal is not a user ends with 403 as
\* soon as it is taken up: it inserts no application and changes no job.
C14_OnlyUsersApply ==
    [][\A w \in Workers :
          (req'[w].op = "create_application" /\ req'[w].user_type = "company")
              => /\ req'[w].pc = "done"
                 /\ req'[w].status = 403
                 /\ req'[w].new_id = NoOid
                 /\ req'[w] # req[w] => (applications' = applications /\ jobs' = jobs)]_vars

\* C14 witness: the company that owns an active job applied to it and got 403.
C14_CompanyRefused ==
    \E w \in Workers :
        /\ req[w].op = "create_application"
        /\ req[w].status = 403
        /\ \E job \in jobs : /\ job._id = ObjectId(req[w].job_id)
                             /\ job.actif
                             /\ job.company_id = req[w].user_id

\* C12: a request of the application's company, on either route that sets a
\* status, carrying a status outside {En attente, Acceptée, Refusée}, is
\* answered 400 and changes nothing stored: the application keeps its
\* status, its notes and its modification time.  No stored application ever
\* has a status outside the three.
C12_InvalidStatusRefused ==
    /\ \A a \in applications :
          a.statut \in {"En attente", "Acceptée", "Refusée"}
    /\ (/\ last.op \in {"update_application_status", "update_application"}
        /\ last.ran
        /\ last.user_type = "company"
        /\ last.statut \notin {Absent, "En attente", "Acceptée", "Refusée"})
       => /\ ~last.changed
          /\ last.status \in {400, 403, 404}
          /\ (\E a \in applications :
                 /\ Str(a._id) = last.target
                 /\ a.company_id = last.user_id) => last.status = 400
C12_InvalidStatusOnUpdate ==
    /\ last.op = "update_application"
    /\ last.user_type = "company"
    /\ last.statut = "Autre"
    /\ last.status = 400
    /\ \E a \in applications :
          /\ Str(a._id) = last.target
          /\ a.company_id = last.user_id
          /\ a.statut = "Acceptée"
          /\ a.date_modification = now

\* C15: update_job, deactivate_job and delete_job asked by a company that
\* is not the job's company_id are answered 403 and change nothing; a job's
\* titre or actif changes, or the job leaves the collection, only in a
\* request that carries the token of the job's company.
JobOps == {"update_job", "deactivate_job", "delete_job"}
C15_OnlyOwnerChangesJob ==
    /\ [](\A job \in jobs :
            (/\ last.op \in JobOps
             /\ last.ran
             /\ last.target = Str(job._id)
             /\ last.user_id # job.company_id)
            => (last.status = 403 /\ ~last.changed))
    /\ [][\A job \in jobs :
            (~\E kept \in jobs' : /\ kept._id = job._id
                                  /\ kept.titre = job.titre
                                  /\ kept.actif = job.actif
                                  /\ kept.company_id = job.company_id)
            => /\ last'.op \in JobOps
               /\ last'.verified
               /\ last'.user_type = "company"
               /\ last'.user_id = job.company_id
               /\ last'.target = Str(job._id)]_vars
C15_OtherCompanyRefused ==
    /\ last.op = "update_job"
    /\ last.user_type = "company"
    /\ last.status = 403
    /\ ~last.changed
    /\ \E job \in jobs : /\ last.target = Str(job._id)
                         /\ last.user_id # job.company_id
                         /\ job.actif

\* C16: get_application, update_application and delete_application go
\* through for a user only when the application's user_id is the user's id,
\* and for a company only when its company_id is the company's id; any other
\* principal is answered 403 and neither the application nor a job's
\* candidatures_count changes.  An application is removed or rewritten only
\* in a request of its user or of its company.
Owner(user_type, user_id, application) ==
    \/ user_type = "user" /\ application.user_id = user_id
    \/ user_type = "company" /\ application.company_id = user_id
C16_OnlyOwnersTouchApplication ==
    /\ [](\A a \in applications :
            (/\ last.op \in {"get_application", "update_application"}
             /\ last.ran
             /\ last.target = Str(a._id))
            => IF Owner(last.user_type, last.user_id, a)
               THEN last.status \in {200, 400}
               ELSE last.status = 403 /\ ~last.changed)
    /\ [][/\ \A w \in Workers :
               (/\ ~Busy(w)
                /\ req'[w] # req[w]
                /\ req'[w].op = "delete_application"
                /\ req'[w].user_type # "")
               => \E a \in applications :
                     /\ Str(a._id) = req'[w].app_id
                     /\ IF Owner(req'[w].user_type, req'[w].user_id, a)
                        THEN req'[w].pc = "delete_find"
                        ELSE /\ req'[w].pc = "done"
                             /\ req'[w].status = 403
                             /\ applications' = applications
                             /\ jobs' = jobs
          /\ \A a \in applications :
               a \notin applications'
               => \/ \E w \in Workers :
                        /\ req[w].op = "delete_application"
                        /\ req[w].pc = "delete_delete"
                        /\ req[w].app_id = Str(a._id)
                        /\ Owner(req[w].user_type, req[w].user_id, a)
                  \/ /\ last'.op \in {"update_application",
                                      "update_application_status"}
                     /\ last'.target = Str(a._id)
                     /\ Owner(last'.user_type, last'.user_id, a)]_vars
C16_StrangerRefused ==
    /\ last.op = "get_application"
    /\ last.user_type = "user"
    /\ last.status = 403
    /\ req[OwnerWorker].op = "delete_application"
    /\ req[OwnerWorker].user_type = "company"
    /\ req[OwnerWorker].status = 403
    /\ \E a \in applications :
          /\ Str(a._id) = last.target
          /\ a.user_id # last.user_id
          /\ a.company_id # req[OwnerWorker].user_id
          /\ req[OwnerWorker].app_id = last.target

\* C13: no two stored users share an email and no two stored companies
\* share an email, however registrations, creations and updates interleave;
\* and a creation whose email is stored in the collection of its kind is
\* answered 409 and stores nothing.
UniqueEmail ==
    \A a, b \in accounts : (a.kind = b.kind /\ a.email = b.email) => a = b
C13_UniqueEmailDuplicateConflicts ==
    /\ []UniqueEmail
    /\ [][\A w \in Workers :
            (/\ req[w].pc = "save"
             /\ req'[w] # req[w]
             /\ find_by_email(KindOf(req[w].op), req[w].email) # {})
            => (last'.status = 409 /\ accounts' = accounts)]_vars

\* C17: no stored user or company has a password shorter than 6 characters.
C17_NoShortPasswordStored ==
    \A a \in accounts : ~(a.password < 6)

\* C18: whatever limit is requested, the limit a listing uses and reports
\* lies in 1..100; a requested 1000 gives 100, an absent one 10.
C18_LimitWithinBounds ==
    last.op \in {"get_all_users", "get_all_companies"}
    => /\ last.limit \in 1..100
       /\ last.args.limit = Given(1000) => last.limit = 100
       /\ ~last.args.limit.given => last.limit = 10

\* C19: the page count a listing reports is ceil(total / limit) when total
\* is positive and 1 when total is 0.
Ceil(total, limit) ==
    CHOOSE k \in 0..total : k * limit >= total /\ (k - 1) * limit < total
C19_PageCount ==
    (/\ last.op \in {"get_all_users", "get_all_companies"}
     /\ last.status = 200
     /\ last.limit \in 1..100)
    => last.pages = IF last.total > 0 THEN Ceil(last.total, last.limit) ELSE 1

\* C20: with a limit L in 1..100, page p >= 1 of a listing over N records
\* holds the records at positions (p-1)*L+1 .. min(p*L, N) of the sorted
\* result, in that order; so the pages are pairwise disjoint and every
\* record is on exactly one of them.
Positions(p, L, N) == ((p - 1) * L + 1)..Min(p * L, N)
PageOf(sorted, p, L) == find_documents(sorted, (p - 1) * L, L)
Substring(part, text) ==
    \E off \in 0..(Len(text) - Len(part)) :
       \A k \in 1..Len(part) : Lower(part[k]) = Lower(text[off + k])
C21_SearchReturnsMatches ==
    last.op = "get_all_jobs"
    => /\ last.status = 200
       /\ last.items =
            {job._id : job \in
               {j \in jobs :
                  /\ j.actif
                  /\ last.args.search # <<>> =>
                        \/ Substring(last.args.search, j.titre)
                        \/ Substring(last.args.search, j.description)
                        \/ \E c \in j.competences_requises :
                              Substring(last.args.search, c)
                  /\ last.args.localisation # <<>> =>
                        Substring(last.args.localisation, j.localisation)
                  /\ last.args.type_contrat # "" =>
                        j.type_contrat = last.args.type_contrat}}

\* C22: a delete_application that has removed the application and whose
\* recount or count write then ends the request answers 200, whether or not
\* that database call succeeded.
C22_DeleteStillReportsSuccess ==
    [][\A w \in Workers :
          (/\ req[w].op = "delete_application"
           /\ req[w].pc \in {"delete_count", "delete_update"}
           /\ req'[w].pc = "done")
          => req'[w].status = 200]_vars

\* C23: every stored application whose job is still stored carries that job's
\* company_id, and no step changes the company_id of a job or of an
\* application that stays stored.
C23_CompanyIdFollowsJob ==
    /\ [](\A a \in applications : \A j \in jobs :
            ObjectId(a.job_id) = j._id => a.company_id = j.company_id)
    /\ [][/\ \A j \in jobs : \A k \in jobs' :
                 j._id = k._id => k.company_id = j.company_id
           /\ \A a \in applications : \A b \in applications' :
                 a._id = b._id => b.company_id = a.company_id]_vars

\* An application to a job of the second company, after the company has
\* answered the application and closed the job.
C23_AppliedToSecondCompany ==
    \E a \in applications : \E j \in jobs :
        /\ ObjectId(a.job_id) = j._id
        /\ j.company_id = Str(Oid("c", 2))
        /\ a.company_id = j.company_id
        /\ a.statut = "Acceptée"
        /\ ~j.actif

\* C24: every stored application names a stored job and a stored user.
C24_ReferencesResolve ==
    \A a \in applications :
        /\ \E j \in jobs : j._id = ObjectId(a.job_id)
        /\ ObjectId(a.user_id) \in users

\* The stored principal a finished change-password or login request names.
Principal(r) ==
    {a \in accounts : a.kind = r.user_type /\ Str(a._id) = r.user_id}
\* A login that names the principal of the change-password request before it.
LoginOfChanger ==
    /\ last.op = "change_password"
    /\ last'.op = "login"
    /\ last'.user_type = last.user_type
    /\ \E a \in Principal(last) : a.email = last'.email
\* The stored digest is the one of this password.
MatchesStored(r, password) ==
    \E a \in Principal(r) : a.password.digest = <<a.password.salt, password.head>>
Within72(password) == password.len <= BcryptLimit

\* C25: for passwords of at most 72 bytes and a new password other than the
\* current one: the login that follows a successful change-password succeeds
\* with the new password and fails with 401 with the old one; a
\* change-password with a valid new password whose current password is not
\* the stored one fails with 401 and leaves the stored hash unchanged, and
\* the login that follows it with the stored password succeeds.
C25_ChangedPasswordLogsIn ==
    [][/\ (/\ LoginOfChanger
           /\ last.status = 200
           /\ Within72(last.password) /\ Within72(last.current)
           /\ last.password # last.current)
          => /\ last'.password = last.password => last'.status = 200
             /\ last'.password = last.current => last'.status = 401
       /\ (/\ last'.op = "change_password"
           /\ Principal(last') # {}
           /\ last'.current # NoPassword /\ Within72(last'.current)
           /\ ~MatchesStored(last', last'.current)
           /\ ~(last'.password.len < MinPasswordLength))
          => last'.status = 401 /\ accounts' = accounts
       /\ (/\ LoginOfChanger
           /\ last.status = 401
           /\ Within72(last'.password)
           /\ MatchesStored(last, last'.password))
          => last'.status = 200]_vars

\* The user changed the password from "secret" to "hunter" and the login
\* with "secret" was refused.
C25_OldPasswordRefused ==
    /\ last.op = "login" /\ last.status = 401 /\ last.user_type = "user"
    /\ last.password.head = "secret"
    /\ \E a \in accounts :
          a.kind = "user" /\ a.email = last.email /\ a.password.digest[2] = "hunter"

\* C25 as stated: after any successful change-password the login with the
\* new password succeeds and the login with the old one fails with 401, and
\* every change-password whose current password is not the stored one fails
\* with 401 and leaves the stored hash unchanged.
C25_AsStated ==
    [][/\ (LoginOfChanger /\ last.status = 200)
          => /\ last'.password = last.password => last'.status = 200
             /\ last'.password = last.current => last'.status = 401
       /\ (/\ last'.op = "change_password"
           /\ Principal(last') # {}
           /\ last'.current # NoPassword /\ last'.password # NoPassword
           /\ ~MatchesStored(last', last'.current))
          => last'.status = 401 /\ accounts' = accounts]_vars

\* Stored applications of the pair a create_application request names.
SamePair(w) ==
    {d \in applications : d.user_id = req[w].user_id /\ d.job_id = req[w].job_id}

\* C26: two create_application requests for one (user_id, job_id) pair can
\* both stand before insert_one with the pair not stored; the one that then
\* inserts second is refused by the unique index, so that no two stored
\* applications carry the same pair.
C26_IndexRejectsSecondInsert ==
    /\ [](\A d \in applications, e \in applications :
            (d.user_id = e.user_id /\ d.job_id = e.job_id) => d = e)
    /\ [][\A w \in Workers :
            (/\ req[w].pc = "save_insert"
             /\ req'[w].pc # "save_insert"
             /\ SamePair(w) # {})
            => (/\ applications' = applications
                /\ req'[w].pc = "done"
                /\ req'[w].status = 500)]_vars

\* Both requests passed both finds before either inserted; one inserted and
\* the other's insert_one raised.
C26_SecondInsertRaised ==
    \E w \in raced, v \in raced :
        /\ w # v
        /\ req[w].pc = "done" /\ req[w].exc /\ req[w].status = 500
        /\ req[v].op = "create_application"
        /\ req[v].user_id = req[w].user_id /\ req[v].job_id = req[w].job_id
        /\ \E d \in SamePair(w) : d._id = req[v].new_id

\* The answer of verify_token_route when the request is judged on this token.
JudgedOn(token, r) ==
    IF token # NoToken /\ verify_token(token, now, jwtRule) # NoPayload
    THEN /\ r.status = 200
         /\ r.user_id = token.payload.user_id
         /\ r.user_type = token.payload.user_type
    ELSE r.status = 401

\* C27: a request without an Authorization header is judged on the session's
\* token (401 when the session holds none), a request with the header on the
\* header's token alone; a successful login puts the token it issues into
\* the session, a successful logout empties the session, and the header-less
\* request that follows it is answered 401.
C27_SessionOnlyWithoutHeader ==
    /\ [](last.op = "verify" =>
            IF last.auth = "absent"
            THEN IF last.session.has THEN JudgedOn(last.session.token, last)
                 ELSE last.status = 401
            ELSE IF last.auth = "bearer" THEN JudgedOn(last.header_token, last)
            ELSE last.status = 401)
    /\ [][/\ ((session' # session /\ session'.has)
              => /\ \E i \in issued' : i.token = session'.token /\ i.at = now
                 /\ ObjectId(session'.token.payload.user_id) \in users \cup companies)
           /\ ((last'.op = "logout" /\ last'.status = 200) => session' = NoSession)
           /\ ((/\ last.op = "logout" /\ last.status = 200
                /\ last'.op = "verify" /\ last'.auth = "absent")
               => last'.status = 401)]_vars

\* The session held an accepted token and the request was refused on the
\* token of its header.
C27_HeaderJudgedWithSession ==
    /\ last.op = "verify" /\ last.auth = "bearer" /\ last.status = 401
    /\ last.session.has
    /\ verify_token(last.session.token, now, jwtRule) # NoPayload

UpdateOps == {"update_application", "update_application_status"}
\* The fields of an application other than these are the same in d and e.
SameExcept(d, e, fields) ==
    \A f \in (DOMAIN d) \ fields : d[f] = e[f]

\* C28: an update_application or update_application_status request leaves
\* every job as it was, stores and removes no application, and changes of a
\* stored application at most lettre_motivation and date_modification when a
\* user asks, at most statut, notes_entreprise and date_modification when a
\* company asks; when it is answered 200 the application's
\* date_modification is the time of the request.
C28_UpdateTouchesOnlyItsFields ==
    [][last'.op \in UpdateOps =>
         /\ jobs' = jobs
         /\ {d._id : d \in applications'} = {d._id : d \in applications}
         /\ \A d \in applications : \A e \in applications' :
               d._id = e._id =>
                 /\ SameExcept(d, e, {"lettre_motivation", "statut",
                                      "notes_entreprise", "date_modification"})
                 /\ last'.user_type = "user" =>
                       SameExcept(d, e, {"lettre_motivation", "date_modification"})
                 /\ last'.user_type = "company" =>
                       SameExcept(d, e, {"statut", "notes_entreprise",
                                         "date_modification"})
                 /\ last'.user_type \notin {"user", "company"} => d = e
                 /\ (last'.status = 200 /\ e._id = ObjectId(last'.target))
                       => e.date_modification = now
                 /\ last'.status # 200 => d = e]_vars

\* The applicant rewrote the cover letter after the company had accepted the
\* application and noted something.
C28_BothOwnersUpdated ==
    /\ last.op = "update_application" /\ last.status = 200
    /\ last.user_type = "user"
    /\ \E d \in applications :
          /\ d._id = ObjectId(last.target)
          /\ d.lettre_motivation = "l1" /\ d.statut = "Acceptée"
          /\ d.notes_entreprise = "n1" /\ d.date_modification = now

ListOps == {"get_all_applications", "get_user_applications",
            "get_company_applications", "get_job_applications"}

\* C29: a request that lists applications returns only applications whose
\* user or whose company is the requester, and is answered 403 when it names
\* another user, another company or the job of another company.
C29_ListsOnlyOwnApplications ==
    last.op \in ListOps =>
        /\ \A a \in last.items : Owner(last.user_type, last.user_id, a)
        /\ (last.op = "get_user_applications" /\ last.target # last.user_id)
              => last.status = 403
        /\ (last.op = "get_company_applications" /\ last.target # last.user_id)
              => last.status = 403
        /\ (/\ last.op = "get_job_applications"
            /\ \E j \in jobs : j._id = ObjectId(last.target)
                                /\ j.company_id # last.user_id)
              => last.status = 403

Kinds == {"user", "company"}

\* C30: every token handed out by register_user, register_company or login
\* carries the kind user or company and the id of a principal stored in that
\* kind's collection when it is issued; every request that passes
\* login_required on get_all_applications runs as a user or as a company.
C30_TokensNameStoredPrincipals ==
    /\ [](\A i \in issued :
            /\ i.token.payload.user_type \in Kinds
            /\ \E oid \in UserOids \cup CompanyOids :
                  i.token.payload.user_id = Str(oid))
    /\ [][\A i \in issued' \ issued :
            ObjectId(i.token.payload.user_id)
                \in IF i.token.payload.user_type = "user" THEN users'
                    ELSE IF i.token.payload.user_type = "company" THEN companies'
                    ELSE {}]_vars
    /\ []((last.op = "get_all_applications" /\ last.status = 200)
            => last.user_type \in Kinds)

\* A company logged in and was handed a token of kind company with its id,
\* after the registered user had deleted the account.
C30_CompanyLoggedIn ==
    /\ last.op = "login" /\ last.status = 200
    /\ last.token.payload.user_type = "company"
    /\ ObjectId(last.token.payload.user_id) \in companies
    /\ users = {} /\ nextUser > 0
    /\ \E i \in issued : i.token = last.token

====
